---- MODULE Spec2Model ----
(***************************************************************************)
(* cover-me: configuration resolution (ConfigManager), credential checks,  *)
(* the LLM client factory, the provider clients, the cover letter          *)
(* generator with the generate command, mask_api_key, the text functions   *)
(* of the PDF generator and of the clients, and the setup and configure    *)
(* commands on the user directory, as state machines.                      *)
(*                                                                         *)
(* One behaviour is one process: the files on disk and os.environ are      *)
(* chosen in Init, and each action is one call of a public operation.  The *)
(* outcome of the last call (normal return or the exception class that     *)
(* left it) is recorded in `outcome`.  In StoreSpec the files of the user  *)
(* directory change, and an action is one command or one call on them.     *)
(***************************************************************************)
EXTENDS Naturals, Sequences, FiniteSets, TLC

VARIABLES
    userFile,      \* ~/.cover-me/config.yaml : NoFile or its text
    defaultFile,   \* <root>/defaults/config.yaml
    legacyFile,    \* <root>/config/config.yaml (legacy location)
    environ,       \* os.environ restricted to the variables the code reads
    config,        \* the caller's `config` variable (NoConfig before a load)
    op,            \* the operation that ran last
    outcome,       \* "ok" or the class of the exception that left it
    msg,           \* the message of that exception
    opened,        \* the configuration files the last operation opened
    client,        \* the client the factory returned last (NoClient if none)
    input,         \* the job description the last call was given or read
    backend,       \* what the backend did with the last call's requests
    disk,          \* what the last call found on disk (profile, output directory)
    calls,         \* the client methods the last call invoked, in order
    letter,        \* the letter generate returned in the last call
    result,        \* the value the last call returned (NoValue if it raised)
    wraps,         \* the prefixes the last exception's message is wrapped in
    saved,         \* what the save step of the last call did
    exit,          \* the exit of the process (generate command)
    key,           \* the API key given to mask_api_key
    masked,        \* what mask_api_key returned for it
    given,         \* the arguments of the last call of a text function
    returned,      \* what that call returned
    files,         \* the other files of the user directory (~/.cover-me)
    before,        \* the user directory when the last command started
    session,       \* what the user answered during the last command
    lastSaved      \* the configuration the last save_config call was given

vars == <<userFile, defaultFile, legacyFile, environ, config, op, outcome, msg,
          opened, client, input, backend, disk, calls, letter, result, wraps,
          saved, exit, key, masked, given, returned, files, before, session,
          lastSaved>>

generation == <<input, backend, disk, calls, letter, result, wraps, saved, exit>>

world == <<userFile, defaultFile, legacyFile, environ>>

texts == <<given, returned>>

store == <<files, before, session, lastSaved>>

---------------------------------------------------------------------------
(* Values *)

\* a key that is not in a mapping
ABSENT == "<absent>"
\* a variable that is not in os.environ
UNSET == "<unset>"

\* str.lower() on the provider strings of the model
Lower(s) ==
    CASE s = "OpenAI"    -> "openai"
      [] s = "ANTHROPIC" -> "anthropic"
      [] s = "Gemini"    -> "gemini"
      [] OTHER           -> s

\* Python truthiness of a string-or-None value (None is UNSET / ABSENT here)
TruthyStr(s) == s \notin {UNSET, ABSENT, ""}

SupportedProviders == <<"openai", "anthropic">>

\* llm.provider values written in configuration files
FileProviders == {ABSENT, "openai", "anthropic", "OpenAI", "gemini"}
FileModels == {ABSENT, "", "gpt-4o"}

\* A section value: kind "absent" (key not in the document), "null"
\* (`llm:` with no value, None), "scalar" (a string that holds none of the
\* key names) or "map".
NonMapLlm(k) == [kind |-> k, provider |-> ABSENT, model |-> ABSENT]
EmptyLlm == NonMapLlm("map")
LlmSections ==
    {NonMapLlm(k) : k \in {"absent", "null", "scalar"}}
    \cup [kind : {"map"}, provider : FileProviders, model : FileModels]

NonMapOutput(k) == [kind |-> k, format |-> ABSENT, output_dir |-> ABSENT]
EmptyOutput == NonMapOutput("map")
OutputSections ==
    {NonMapOutput(k) : k \in {"absent", "scalar"}}
    \cup { [kind |-> "map", format |-> f[1], output_dir |-> f[2]] :
             f \in { <<ABSENT, ABSENT>>, <<"pdf", "out">>, <<"text", "out">>,
                     <<"docx", ABSENT>> } }

\* A parsed YAML document / a Python configuration value.
NonMapDoc(k) == [kind |-> k, llm |-> NonMapLlm("absent"), output |-> NonMapOutput("absent")]
\* {}
EmptyMap == NonMapDoc("map")
\* the caller's variable before any assignment
NoConfig == NonMapDoc("none")
MapDocs == [kind : {"map"}, llm : LlmSections, output : OutputSections]
\* "null": an empty file (None); "list": a non-empty YAML list; "scalar": a
\* non-empty string that contains none of the key names
Docs == MapDocs \cup {NonMapDoc(k) : k \in {"null", "list", "scalar"}}

\* File texts: well-formed YAML of a document, or malformed YAML.
NoFile == [yaml |-> "nofile", doc |-> NonMapDoc("null")]
Malformed == [yaml |-> "bad", doc |-> NonMapDoc("null")]
TextOf(d) == [yaml |-> "ok", doc |-> d]

UserTexts == {Malformed} \cup {TextOf(d) : d \in Docs}

ShippedDefault ==
    TextOf([kind |-> "map",
            llm |-> [kind |-> "map", provider |-> "openai", model |-> "gpt-4o"],
            output |-> [kind |-> "map", format |-> "pdf", output_dir |-> "out"]])
LegacyDefault ==
    TextOf([kind |-> "map",
            llm |-> [kind |-> "map", provider |-> "anthropic", model |-> ABSENT],
            output |-> [kind |-> "map", format |-> "text", output_dir |-> "out"]])

EnvNames == {"COVER_ME_LLM_PROVIDER", "COVER_ME_OUTPUT_DIR",
             "OPENAI_API_KEY", "ANTHROPIC_API_KEY"}
EnvValues(n) ==
    CASE n = "COVER_ME_LLM_PROVIDER" -> {UNSET, "anthropic", "ANTHROPIC", "Gemini"}
      [] n = "COVER_ME_OUTPUT_DIR"   -> {UNSET, "/env/out"}
      [] n = "OPENAI_API_KEY"        -> {UNSET, "", "sk-openai-key"}
      [] n = "ANTHROPIC_API_KEY"     -> {UNSET, "", "sk-ant-key"}

NoMsg == [kind |-> "none", value |-> "", supported |-> <<>>]
Msg(k, v) == [kind |-> k, value |-> v, supported |-> <<>>]

NoClient == [variant |-> "none", model |-> ABSENT, api_key |-> UNSET]

\* What an operation leaves: its outcome, the value it returns, the message.
Raise(exc, m) == [outcome |-> exc, config |-> NoConfig, msg |-> m]
Return(c) == [outcome |-> "ok", config |-> c, msg |-> NoMsg]

---------------------------------------------------------------------------
(* ConfigManager *)

\* has_user_config
has_user_config == userFile # NoFile

\* `yaml.safe_load(f) or {}` on a well-formed text: a falsy document gives {}
safe_load_or_empty(text) ==
    IF text.doc.kind = "null" THEN EmptyMap ELSE text.doc

\* the file _get_default_config opens ("none" when it raises before opening)
default_config_path ==
    IF defaultFile # NoFile THEN "default"
    ELSE IF legacyFile # NoFile THEN "legacy"
    ELSE "none"

get_default_config ==
    IF default_config_path = "none"
    THEN Raise("ConfigurationError", Msg("no_default_config", ""))
    ELSE LET text == IF default_config_path = "default" THEN defaultFile ELSE legacyFile
         IN  IF text.yaml = "bad"
             THEN Raise("ConfigurationError", Msg("invalid_yaml", "default"))
             ELSE Return(safe_load_or_empty(text))

\* mutant of override_provider: the override is applied only to an llm section
\* that is already there
override_provider_existing_only(c) ==
    IF environ["COVER_ME_LLM_PROVIDER"] = UNSET THEN Return(c)
    ELSE IF c.kind # "map" THEN Raise("TypeError", Msg("item_assignment", "config"))
    ELSE IF c.llm.kind = "absent" THEN Return(c)
    ELSE IF c.llm.kind # "map" THEN Raise("TypeError", Msg("item_assignment", "llm"))
    ELSE Return([c EXCEPT !.llm.provider = environ["COVER_ME_LLM_PROVIDER"]])

\* one override of _apply_env_overrides:
\*   if VAR in os.environ:
\*       if section not in config: config[section] = {}
\*       config[section][key] = os.environ[VAR]
override_provider(c) ==
    IF environ["COVER_ME_LLM_PROVIDER"] = UNSET THEN Return(c)
    ELSE IF c.kind # "map" THEN Raise("TypeError", Msg("item_assignment", "config"))
    ELSE LET c1 == IF c.llm.kind = "absent" THEN [c EXCEPT !.llm = EmptyLlm] ELSE c
         IN  IF c1.llm.kind # "map"
             THEN Raise("TypeError", Msg("item_assignment", "llm"))
             ELSE Return([c1 EXCEPT !.llm.provider = environ["COVER_ME_LLM_PROVIDER"]])

override_output_dir(c) ==
    IF environ["COVER_ME_OUTPUT_DIR"] = UNSET THEN Return(c)
    ELSE IF c.kind # "map" THEN Raise("TypeError", Msg("item_assignment", "config"))
    ELSE LET c1 == IF c.output.kind = "absent" THEN [c EXCEPT !.output = EmptyOutput] ELSE c
         IN  IF c1.output.kind # "map"
             THEN Raise("TypeError", Msg("item_assignment", "output"))
             ELSE Return([c1 EXCEPT !.output.output_dir = environ["COVER_ME_OUTPUT_DIR"]])

apply_env_overrides(c) ==
    LET r == override_provider(c)
    IN  IF r.outcome # "ok" THEN r ELSE override_output_dir(r.config)

\* mutant of load_base: the installation default wins over the user file
load_base_default_first ==
    IF default_config_path # "none" THEN get_default_config
    ELSE IF userFile = NoFile THEN get_default_config
    ELSE IF userFile.yaml = "bad"
    THEN Raise("ConfigurationError", Msg("invalid_yaml", "user"))
    ELSE Return(safe_load_or_empty(userFile))

\* the base configuration of load_config, before the overrides
load_base ==
    IF userFile # NoFile
    THEN IF userFile.yaml = "bad"
         THEN Raise("ConfigurationError", Msg("invalid_yaml", "user"))
         ELSE Return(safe_load_or_empty(userFile))
    ELSE get_default_config

\* the files load_config opens
load_opened ==
    IF userFile # NoFile THEN {"user"}
    ELSE IF default_config_path = "none" THEN {} ELSE {default_config_path}

load_config ==
    LET b == load_base
    IN  IF b.outcome # "ok" THEN b ELSE apply_env_overrides(b.config)

\* `section in config` for the section names
HasSection(c, s) ==
    /\ c.kind = "map"
    /\ IF s = "llm" THEN c.llm.kind # "absent" ELSE c.output.kind # "absent"

\* mutant of validate_api_keys: both providers' keys are demanded
validate_api_keys_all_keys(c) ==
    IF c.kind # "map" THEN Raise("TypeError", Msg("subscript", "config"))
    ELSE IF c.llm.kind = "absent" THEN Raise("KeyError", Msg("key", "llm"))
    ELSE IF c.llm.kind # "map" THEN Raise("TypeError", Msg("subscript", "llm"))
    ELSE IF c.llm.provider = ABSENT THEN Raise("KeyError", Msg("key", "provider"))
    ELSE IF environ["OPENAI_API_KEY"] = UNSET
         THEN Raise("ConfigurationError", Msg("api_key_not_found", "OPENAI_API_KEY"))
    ELSE IF environ["ANTHROPIC_API_KEY"] = UNSET
         THEN Raise("ConfigurationError", Msg("api_key_not_found", "ANTHROPIC_API_KEY"))
    ELSE Return(c)

validate_api_keys(c) ==
    IF c.kind # "map" THEN Raise("TypeError", Msg("subscript", "config"))
    ELSE IF c.llm.kind = "absent" THEN Raise("KeyError", Msg("key", "llm"))
    ELSE IF c.llm.kind # "map" THEN Raise("TypeError", Msg("subscript", "llm"))
    ELSE IF c.llm.provider = ABSENT THEN Raise("KeyError", Msg("key", "provider"))
    ELSE IF c.llm.provider = "openai" /\ environ["OPENAI_API_KEY"] = UNSET
         THEN Raise("ConfigurationError", Msg("api_key_not_found", "OPENAI_API_KEY"))
    ELSE IF c.llm.provider = "anthropic" /\ environ["ANTHROPIC_API_KEY"] = UNSET
         THEN Raise("ConfigurationError", Msg("api_key_not_found", "ANTHROPIC_API_KEY"))
    ELSE Return(c)

\* mutant of validate_config: the llm.model check is left out
validate_config_no_model_check(c) ==
    IF ~HasSection(c, "llm")
    THEN Raise("ConfigurationError", Msg("missing_section", "llm"))
    ELSE IF ~HasSection(c, "output")
    THEN Raise("ConfigurationError", Msg("missing_section", "output"))
    ELSE IF c.llm.kind = "null" THEN Raise("TypeError", Msg("not_iterable", "llm"))
    ELSE IF c.llm.kind = "scalar" \/ c.llm.provider = ABSENT
    THEN Raise("ConfigurationError", Msg("provider_not_specified", ""))
    ELSE IF c.llm.provider \notin {"openai", "anthropic"}
    THEN Raise("ConfigurationError", Msg("unsupported_provider", c.llm.provider))
    ELSE validate_api_keys(c)

validate_config(c) ==
    IF ~HasSection(c, "llm")
    THEN Raise("ConfigurationError", Msg("missing_section", "llm"))
    ELSE IF ~HasSection(c, "output")
    THEN Raise("ConfigurationError", Msg("missing_section", "output"))
    ELSE IF c.llm.kind = "null" THEN Raise("TypeError", Msg("not_iterable", "llm"))
    ELSE IF c.llm.kind = "scalar" \/ c.llm.provider = ABSENT
    THEN Raise("ConfigurationError", Msg("provider_not_specified", ""))
    ELSE IF c.llm.provider \notin {"openai", "anthropic"}
    THEN Raise("ConfigurationError", Msg("unsupported_provider", c.llm.provider))
    ELSE IF c.llm.model = ABSENT
    THEN Raise("ConfigurationError", Msg("model_not_specified", ""))
    ELSE validate_api_keys(c)

check_api_keys_early ==
    IF ~has_user_config
    THEN Raise("ConfigurationError", Msg("no_configuration", ""))
    ELSE LET r == load_config
         IN  IF r.outcome # "ok" THEN r ELSE validate_api_keys(r.config)

---------------------------------------------------------------------------
(* LLM client factory *)

RaiseC(exc, m) == [outcome |-> exc, client |-> NoClient, msg |-> m]
ReturnC(cl) == [outcome |-> "ok", client |-> cl, msg |-> NoMsg]

\* config.get(key, default) on the llm mapping
GetOr(v, default) == IF v = ABSENT THEN default ELSE v

\* OpenAIClient.__init__: os.getenv("OPENAI_API_KEY"), `if not api_key: raise`
OpenAIClient(llm) ==
    IF ~TruthyStr(environ["OPENAI_API_KEY"])
    THEN RaiseC("ValueError", Msg("env_var_required", "OPENAI_API_KEY"))
    ELSE ReturnC([variant |-> "OpenAIClient",
                  model |-> GetOr(llm.model, "gpt-4o"),
                  api_key |-> environ["OPENAI_API_KEY"]])

\* AnthropicClient.__init__
AnthropicClient(llm) ==
    IF ~TruthyStr(environ["ANTHROPIC_API_KEY"])
    THEN RaiseC("ValueError", Msg("env_var_required", "ANTHROPIC_API_KEY"))
    ELSE ReturnC([variant |-> "AnthropicClient",
                  model |-> GetOr(llm.model, "claude-3-5-sonnet-20241022"),
                  api_key |-> environ["ANTHROPIC_API_KEY"]])

\* mutant of factory_provider: the provider is compared as written
factory_provider_no_lower(llm) == GetOr(llm.provider, "openai")

\* provider = config.get("provider", "openai").lower()
factory_provider(llm) == Lower(GetOr(llm.provider, "openai"))

\* mutant of create_llm_client: an unknown provider falls through to OpenAI
create_llm_client_fallthrough(llm) ==
    IF llm.kind # "map" THEN RaiseC("AttributeError", Msg("no_attribute", "get"))
    ELSE IF factory_provider(llm) = "anthropic" THEN AnthropicClient(llm)
    ELSE OpenAIClient(llm)

create_llm_client(llm) ==
    IF llm.kind # "map" THEN RaiseC("AttributeError", Msg("no_attribute", "get"))
    ELSE IF factory_provider(llm) = "openai" THEN OpenAIClient(llm)
    ELSE IF factory_provider(llm) = "anthropic" THEN AnthropicClient(llm)
    ELSE RaiseC("ValueError",
                [kind |-> "unsupported_llm_provider",
                 value |-> factory_provider(llm),
                 supported |-> SupportedProviders])

\* llm_config = self.config.get("llm", {})
llm_config(c) == IF c.llm.kind = "absent" THEN EmptyLlm ELSE c.llm

\* CoverLetterGenerator._create_llm_client on configuration c
generator_create_llm_client(c) ==
    IF c.kind # "map" THEN RaiseC("AttributeError", Msg("no_attribute", "get"))
    ELSE create_llm_client(llm_config(c))

\* get_provider_info()["provider"] of a client
provider_info_provider(cl) ==
    CASE cl.variant = "OpenAIClient"    -> "openai"
      [] cl.variant = "AnthropicClient" -> "anthropic"
      [] OTHER                          -> ABSENT

---------------------------------------------------------------------------
(* Texts, clipboard, backend *)

\* a job description longer than the clipboard limit
Oversized == "<a job description of 60000 characters>"

\* str.strip() on the texts of the model
Strip(t) ==
    CASE t = "  \n"                 -> ""
      [] t = "  Backend engineer\n" -> "Backend engineer"
      [] t = "  Dear team\n"        -> "Dear team"
      [] OTHER                      -> t

\* len() on the texts of the model
TextLen(t) ==
    CASE t = ""                     -> 0
      [] t = "  \n"                 -> 3
      [] t = "Backend engineer"     -> 16
      [] t = "  Backend engineer\n" -> 19
      [] t = Oversized              -> 60000
      [] OTHER                      -> 9

\* the default of clipboard.max_size_bytes
MaxSizeBytes == 50000

\* job descriptions, as an argument or as the clipboard's content
Texts == {"", "  \n", "Backend engineer", "  Backend engineer\n", Oversized}

\* The clipboard: pyperclip cannot be imported, paste() raises, or it holds a text.
Clipboard(a, t) == [access |-> a, content |-> t]
Clipboards ==
    {Clipboard("no_pyperclip", ""), Clipboard("paste_error", "")}
    \cup {Clipboard("ok", t) : t \in Texts}

\* What the backend does with the probe request: it answers, or the request
\* raises an SDK error.
Probes == {"ok", "auth_error", "connection_error"}

\* What the backend does with the generation request.  "error": the request
\* raises an SDK error whose text is `cause`; "empty": no choices / no content
\* blocks; "no_message": choices[0].message is None; "no_text":
\* message.content is None / no content block has a text; "text": the text.
Response(k, t, c) == [kind |-> k, text |-> t, cause |-> c]
NoResponse == Response("unused", "", "")
Causes == {"Connection error.", "Incorrect API key provided"}
LetterTexts == {"Dear team", "  Dear team\n", "", "  \n"}
Responses ==
    {Response("error", "", c) : c \in Causes}
    \cup {Response(k, "", "") : k \in {"empty", "no_message", "no_text"}}
    \cup {Response("text", t, "") : t \in LetterTexts}
\* an Anthropic response has no message level
ResponsesOf(variant) ==
    IF variant = "AnthropicClient"
    THEN {r \in Responses : r.kind # "no_message"}
    ELSE Responses

\* a returned value that is not there (the call raised)
NoValue == "<none>"
\* an exception message that is a plain text
Text(s) == Msg("text", s)

NoOutputFile == [extension |-> ABSENT, output_dir |-> ABSENT, content |-> NoValue]
NotSaved == [attempted |-> FALSE, file |-> NoOutputFile]

\* What a call leaves: its outcome, the value it returns, the prefixes its
\* message was wrapped in (outermost first) and the message of the first
\* cause, the client methods it invoked, the letter generate returned, what
\* the save step did.
Raises(exc, w, m) ==
    [outcome |-> exc, value |-> NoValue, wraps |-> w, msg |-> m,
     calls |-> <<>>, letter |-> NoValue, saved |-> NotSaved]
Returns(v) ==
    [outcome |-> "ok", value |-> v, wraps |-> <<>>, msg |-> NoMsg,
     calls |-> <<>>, letter |-> NoValue, saved |-> NotSaved]

\* the generation variables of a process that has made no generation call
NoInput == [source |-> "none", access |-> "ok", text |-> ""]
NoBackend == [probe |-> "unused", response |-> NoResponse]
NoDisk == [profile |-> "unused", output |-> "unused"]
NoExit == [exited |-> FALSE, code |-> 0, stderr |-> ""]

\* no text function called yet; a user directory holding no file besides the
\* configuration; no command run yet
NoCall == [fn |-> "none"]
NoFiles == [profile |-> "absent", system_prompt |-> "absent", template |-> "absent"]
NoSnapshot == [config |-> NoFile, files |-> NoFiles]
NoSession == [command |-> "none", n |-> 0]
Idle ==
    /\ input = NoInput
    /\ backend = NoBackend
    /\ disk = NoDisk
    /\ calls = <<>>
    /\ letter = NoValue
    /\ result = NoValue
    /\ wraps = <<>>
    /\ saved = NotSaved
    /\ exit = NoExit
    /\ key = <<>>
    /\ masked = <<>>
    /\ given = NoCall
    /\ returned = NoCall
    /\ files = NoFiles
    /\ before = NoSnapshot
    /\ session = NoSession
    /\ lastSaved = NoConfig

---------------------------------------------------------------------------
(* utils.clipboard *)

validate_clipboard_content(content, max_size_bytes) ==
    IF content = "" \/ Strip(content) = ""
    THEN Raises("ClipboardError", <<>>, Msg("clipboard_empty", ""))
    ELSE IF TextLen(Strip(content)) > max_size_bytes
    THEN Raises("ClipboardError", <<>>, Msg("clipboard_too_large", ""))
    ELSE Returns(Strip(content))

get_and_validate_clipboard(clip) ==
    IF clip.access = "no_pyperclip"
    THEN Raises("ImportError", <<>>, Msg("pyperclip_required", ""))
    ELSE IF clip.access = "paste_error"
    THEN Raises("ClipboardError", <<"Failed to access clipboard">>,
                Text("Pyperclip could not find a copy/paste mechanism"))
    ELSE validate_clipboard_content(clip.content, MaxSizeBytes)

---------------------------------------------------------------------------
(* LLM clients *)

\* mutant of OpenAI_validate_api_key: a connection error is let through
OpenAI_validate_api_key_raises(probe) ==
    IF probe = "ok" THEN Returns("True")
    ELSE IF probe = "connection_error"
    THEN Raises("APIConnectionError", <<>>, Text("Connection error."))
    ELSE Returns("False")

\* OpenAIClient.validate_api_key: try: create(...); return True
\*                                except Exception: return False
OpenAI_validate_api_key(probe) ==
    IF probe = "ok" THEN Returns("True") ELSE Returns("False")

\* AnthropicClient.validate_api_key
Anthropic_validate_api_key(probe) ==
    IF probe = "ok" THEN Returns("True") ELSE Returns("False")

validate_api_key(cl, probe) ==
    IF cl.variant = "OpenAIClient"
    THEN OpenAI_validate_api_key(probe)
    ELSE Anthropic_validate_api_key(probe)

\* OpenAIClient.generate_cover_letter
OpenAI_generate_cover_letter(resp) ==
    CASE resp.kind = "error" ->
           Raises("Exception", <<"OpenAI API error">>, Text(resp.cause))
      [] resp.kind \in {"empty", "no_message"} ->
           Raises("Exception", <<"OpenAI API error">>,
                  Text("No response received from OpenAI API"))
      [] resp.kind = "no_text" ->
           Raises("Exception", <<"OpenAI API error">>,
                  Text("'NoneType' object has no attribute 'strip'"))
      [] OTHER -> Returns(Strip(resp.text))

\* mutant of Anthropic_generate_cover_letter: an SDK error is not wrapped
Anthropic_generate_cover_letter_raw(resp) ==
    CASE resp.kind = "error" ->
           Raises("APIConnectionError", <<>>, Text(resp.cause))
      [] resp.kind = "empty" ->
           Raises("Exception", <<"Anthropic API error">>,
                  Text("No response received from Anthropic API"))
      [] resp.kind = "no_text" -> Returns(Strip(""))
      [] OTHER -> Returns(Strip(resp.text))

\* AnthropicClient.generate_cover_letter: the texts of the blocks that have
\* one are concatenated, starting from ""
Anthropic_generate_cover_letter(resp) ==
    CASE resp.kind = "error" ->
           Raises("Exception", <<"Anthropic API error">>, Text(resp.cause))
      [] resp.kind = "empty" ->
           Raises("Exception", <<"Anthropic API error">>,
                  Text("No response received from Anthropic API"))
      [] resp.kind = "no_text" -> Returns(Strip(""))
      [] OTHER -> Returns(Strip(resp.text))

generate_cover_letter(cl, resp) ==
    IF cl.variant = "OpenAIClient"
    THEN OpenAI_generate_cover_letter(resp)
    ELSE Anthropic_generate_cover_letter(resp)

---------------------------------------------------------------------------
(* mask_api_key *)

\* A key is a sequence of characters.
Alphabet == {"k", "."}
MaxKeyLen == 11
Keys == UNION {[1..n -> Alphabet] : n \in 0..MaxKeyLen}

Placeholder == <<"*", "*", "*", "*">>
Separator == <<".", ".", ".">>

\* mutant of mask_api_key: a key of eight characters is masked to the placeholder
mask_api_key_short_nine(api_key) ==
    IF Len(api_key) = 0 \/ Len(api_key) < 9 THEN Placeholder
    ELSE SubSeq(api_key, 1, 4) \o Separator
         \o SubSeq(api_key, Len(api_key) - 3, Len(api_key))

\* if not api_key or len(api_key) < 8: return "****"
\* return f"{api_key[:4]}...{api_key[-4:]}"
mask_api_key(api_key) ==
    IF Len(api_key) = 0 \/ Len(api_key) < 8 THEN Placeholder
    ELSE SubSeq(api_key, 1, 4) \o Separator
         \o SubSeq(api_key, Len(api_key) - 3, Len(api_key))

---------------------------------------------------------------------------
(* CoverLetterGenerator *)

\* What the constructor leaves: self.config and self.llm_client, or the
\* exception that left it.
NoGenerator(exc, w, m) ==
    [outcome |-> exc, config |-> NoConfig, client |-> NoClient,
     wraps |-> w, msg |-> m]

\* CoverLetterGenerator.__init__; `profile` tells whether system_prompt.md and
\* profile.md can be read.  load_dotenv() finds no .env file.
new_generator(profile) ==
    IF ~has_user_config
    THEN NoGenerator("ConfigurationError", <<>>, Msg("no_configuration", ""))
    ELSE LET r == load_config
             v == validate_config(r.config)
             k == generator_create_llm_client(r.config)
         IN  IF r.outcome = "ConfigurationError"
             THEN NoGenerator("ConfigurationError", <<"Configuration error">>, r.msg)
             ELSE IF r.outcome # "ok" THEN NoGenerator(r.outcome, <<>>, r.msg)
             ELSE IF v.outcome = "ConfigurationError"
             THEN NoGenerator("ConfigurationError", <<"Configuration error">>, v.msg)
             ELSE IF v.outcome # "ok" THEN NoGenerator(v.outcome, <<>>, v.msg)
             ELSE IF k.outcome # "ok" THEN NoGenerator(k.outcome, <<>>, k.msg)
             ELSE IF profile # "present"
             THEN NoGenerator("FileNotFoundError", <<>>,
                              Msg("required_file_not_found", ""))
             ELSE [outcome |-> "ok", config |-> r.config, client |-> k.client,
                   wraps |-> <<>>, msg |-> NoMsg]

GenerationFailed == "Failed to generate cover letter"
FromClipboardFailed == "Failed to generate cover letter from clipboard"
ProbeFailed == Text("Invalid API key or connection failed")

\* mutant of generate: the credential is probed before the description is looked at
generate_probe_first(cl, job_description, probe, resp) ==
    LET p == validate_api_key(cl, probe)
    IN  IF Strip(job_description) = ""
        THEN [Raises("ValueError", <<>>, Msg("job_description_empty", ""))
                EXCEPT !.calls = <<"validate_api_key">>]
        ELSE IF p.value # "True"
        THEN [Raises("Exception", <<GenerationFailed>>, ProbeFailed)
                EXCEPT !.calls = <<"validate_api_key">>]
        ELSE LET g == generate_cover_letter(cl, resp)
                 cs == <<"validate_api_key", "generate_cover_letter">>
             IN  IF g.outcome # "ok"
                 THEN [Raises("Exception", <<GenerationFailed>> \o g.wraps, g.msg)
                         EXCEPT !.calls = cs]
                 ELSE [Returns(g.value) EXCEPT !.calls = cs, !.letter = g.value]

\* mutant of generate: the letter is requested without a probe
generate_no_probe(cl, job_description, probe, resp) ==
    IF Strip(job_description) = ""
    THEN Raises("ValueError", <<>>, Msg("job_description_empty", ""))
    ELSE LET g == generate_cover_letter(cl, resp)
             cs == <<"generate_cover_letter">>
         IN  IF g.outcome # "ok"
             THEN [Raises("Exception", <<GenerationFailed>> \o g.wraps, g.msg)
                     EXCEPT !.calls = cs]
             ELSE [Returns(g.value) EXCEPT !.calls = cs, !.letter = g.value]

\* CoverLetterGenerator.generate on client cl
generate(cl, job_description, probe, resp) ==
    IF Strip(job_description) = ""
    THEN Raises("ValueError", <<>>, Msg("job_description_empty", ""))
    ELSE LET p == validate_api_key(cl, probe)
         IN  IF p.outcome # "ok"
             THEN [Raises("Exception", <<GenerationFailed>> \o p.wraps, p.msg)
                     EXCEPT !.calls = <<"validate_api_key">>]
             ELSE IF p.value # "True"
             THEN [Raises("Exception", <<GenerationFailed>>, ProbeFailed)
                     EXCEPT !.calls = <<"validate_api_key">>]
             ELSE LET g == generate_cover_letter(cl, resp)
                      cs == <<"validate_api_key", "generate_cover_letter">>
                  IN  IF g.outcome # "ok"
                      THEN [Raises("Exception", <<GenerationFailed>> \o g.wraps, g.msg)
                              EXCEPT !.calls = cs]
                      ELSE [Returns(g.value) EXCEPT !.calls = cs, !.letter = g.value]

\* what the output directory lets the save step do
Outputs == {"writable", "write_fails"}

Attempted(file) == [attempted |-> TRUE, file |-> file]

\* CoverLetterGenerator._save_cover_letter (no output_path) with _save_as_text
\* / _save_as_pdf; the value is the directory of the path it returns
save_cover_letter(c, cover_letter, output) ==
    IF c.output.kind \notin {"absent", "map"}
    THEN [Raises("AttributeError", <<>>, Msg("no_attribute", "get"))
            EXCEPT !.saved = Attempted(NoOutputFile)]
    ELSE LET output_format == GetOr(c.output.format, "text")
             output_dir == GetOr(c.output.output_dir, "output")
             extension == IF output_format = "pdf" THEN "pdf" ELSE "txt"
         IN  IF output # "writable"
             THEN [Raises("OSError", <<>>, Text("Permission denied"))
                     EXCEPT !.saved = Attempted(NoOutputFile)]
             ELSE [Returns(output_dir)
                     EXCEPT !.saved = Attempted([extension |-> extension,
                                                 output_dir |-> output_dir,
                                                 content |-> cover_letter])]

\* mutant of generate_from_clipboard: the file is written whether or not
\* generate returned
generate_from_clipboard_save_always(c, cl, clip, probe, resp, output) ==
    LET j == get_and_validate_clipboard(clip)
        g == generate(cl, j.value, probe, resp)
        s == save_cover_letter(c, g.value, output)
    IN  IF j.outcome \in {"ImportError", "ClipboardError"}
        THEN Raises("ValueError", j.wraps, j.msg)
        ELSE IF g.outcome # "ok"
        THEN [Raises("Exception", <<FromClipboardFailed>> \o g.wraps, g.msg)
                EXCEPT !.calls = g.calls, !.saved = s.saved]
        ELSE IF s.outcome # "ok"
        THEN [Raises("Exception", <<FromClipboardFailed>> \o s.wraps, s.msg)
                EXCEPT !.calls = g.calls, !.letter = g.letter, !.saved = s.saved]
        ELSE [Returns(g.value)
                EXCEPT !.calls = g.calls, !.letter = g.letter, !.saved = s.saved]

\* CoverLetterGenerator.generate_from_clipboard on configuration c and client cl
generate_from_clipboard(c, cl, clip, probe, resp, output) ==
    LET j == get_and_validate_clipboard(clip)
        g == generate(cl, j.value, probe, resp)
        s == save_cover_letter(c, g.value, output)
    IN  IF j.outcome \in {"ImportError", "ClipboardError"}
        THEN Raises("ValueError", j.wraps, j.msg)
        ELSE IF g.outcome # "ok"
        THEN [Raises("Exception", <<FromClipboardFailed>> \o g.wraps, g.msg)
                EXCEPT !.calls = g.calls]
        ELSE IF s.outcome # "ok"
        THEN [Raises("Exception", <<FromClipboardFailed>> \o s.wraps, s.msg)
                EXCEPT !.calls = g.calls, !.letter = g.letter, !.saved = s.saved]
        ELSE [Returns(g.value)
                EXCEPT !.calls = g.calls, !.letter = g.letter, !.saved = s.saved]

---------------------------------------------------------------------------
(* cli.generate *)

\* the except clause of generate_command that catches an exception class,
\* named by the heading it writes to the error stream
Handler(exc) ==
    CASE exc = "ConfigurationError" -> "Configuration Error"
      [] exc = "APIError"           -> "API Error"
      [] exc = "ValueError"         -> "Input Error"
      [] OTHER                      -> "Error"

\* generate_command under main(): the run of its try block, the exit code of
\* the process and the heading written to the error stream ("" when nothing is)
generate_command(clip, probe, resp, profile, output) ==
    LET e == check_api_keys_early
        g == new_generator(profile)
        r == generate_from_clipboard(g.config, g.client, clip, probe, resp, output)
        run == IF e.outcome # "ok" THEN Raises(e.outcome, <<>>, e.msg)
               ELSE IF g.outcome # "ok" THEN Raises(g.outcome, g.wraps, g.msg)
               ELSE r
    IN  [run |-> run,
         code |-> IF run.outcome = "ok" THEN 0 ELSE 1,
         stderr |-> IF run.outcome = "ok" THEN "" ELSE Handler(run.outcome)]

---------------------------------------------------------------------------
(* State machine *)

AllEnvValues == UNION {EnvValues(n) : n \in EnvNames}
EnvStates == {e \in [EnvNames -> AllEnvValues] : \A n \in EnvNames : e[n] \in EnvValues(n)}

Init ==
    /\ userFile \in {NoFile} \cup UserTexts
    /\ defaultFile \in {NoFile, ShippedDefault, Malformed}
    /\ legacyFile \in {NoFile, LegacyDefault}
    /\ environ \in EnvStates
    /\ config = NoConfig
    /\ op = "none"
    /\ outcome = "ok"
    /\ msg = NoMsg
    /\ opened = {}
    /\ client = NoClient
    /\ Idle

\* config = config_manager.load_config()
LoadConfig ==
    LET r == load_config
    IN  /\ op' = "load_config"
        /\ outcome' = r.outcome
        /\ msg' = r.msg
        /\ opened' = load_opened
        /\ config' = IF r.outcome = "ok" THEN r.config ELSE config
        /\ client' = NoClient
        /\ UNCHANGED <<world, generation, key, masked, texts, store>>

\* config_manager.validate_config(config)
ValidateConfig ==
    /\ config # NoConfig
    /\ LET r == validate_config(config)
       IN  /\ op' = "validate_config"
           /\ outcome' = r.outcome
           /\ msg' = r.msg
           /\ opened' = {}
           /\ client' = NoClient
           /\ UNCHANGED <<config, world, generation, key, masked, texts, store>>

\* config_manager.check_api_keys_early()
CheckApiKeysEarly ==
    LET r == check_api_keys_early
    IN  /\ op' = "check_api_keys_early"
        /\ outcome' = r.outcome
        /\ msg' = r.msg
        /\ opened' = IF has_user_config THEN load_opened ELSE {}
        /\ client' = NoClient
        /\ UNCHANGED <<config, world, generation, key, masked, texts, store>>

\* create_llm_client(config.get("llm", {}))
CreateLlmClient ==
    /\ config # NoConfig
    /\ LET r == generator_create_llm_client(config)
       IN  /\ op' = "create_llm_client"
           /\ outcome' = r.outcome
           /\ msg' = r.msg
           /\ opened' = {}
           /\ client' = r.client
           /\ UNCHANGED <<config, world, generation, key, masked, texts, store>>

Next ==
    \/ LoadConfig
    \/ ValidateConfig
    \/ CheckApiKeysEarly
    \/ CreateLlmClient

Spec == Init /\ [][Next]_vars

---------------------------------------------------------------------------
(* Generation: the generator, its clients and the generate command *)

\* what the last call took from the probe and from the generation request
Consulted(cs, probe, resp) ==
    [probe |-> IF Len(cs) >= 1 /\ cs[1] = "validate_api_key" THEN probe ELSE "unused",
     response |-> IF Len(cs) >= 1 /\ cs[Len(cs)] = "generate_cover_letter"
                  THEN resp ELSE NoResponse]

\* The user configurations of the generation runs: one document per way the
\* generate command can go.
LlmOf(p, m) == [kind |-> "map", provider |-> p, model |-> m]
OutputOf(f, d) == [kind |-> "map", format |-> f, output_dir |-> d]
DocOf(l, o) == [kind |-> "map", llm |-> l, output |-> o]
GenDocs ==
    {NonMapDoc("null"), NonMapDoc("list"),
     DocOf(NonMapLlm("absent"), OutputOf("pdf", "out")),
     DocOf(NonMapLlm("null"), OutputOf("pdf", "out")),
     DocOf(NonMapLlm("scalar"), OutputOf("pdf", "out")),
     DocOf(LlmOf(ABSENT, "gpt-4o"), OutputOf("pdf", "out")),
     DocOf(LlmOf("gemini", "gpt-4o"), OutputOf("pdf", "out")),
     DocOf(LlmOf("OpenAI", "gpt-4o"), OutputOf("pdf", "out")),
     DocOf(LlmOf("openai", ABSENT), OutputOf("pdf", "out")),
     DocOf(LlmOf("openai", "gpt-4o"), NonMapOutput("absent")),
     DocOf(LlmOf("openai", "gpt-4o"), NonMapOutput("scalar")),
     DocOf(LlmOf("openai", "gpt-4o"), OutputOf("pdf", "out")),
     DocOf(LlmOf("openai", ""), OutputOf("docx", ABSENT)),
     DocOf(LlmOf("anthropic", "gpt-4o"), OutputOf("text", "out")),
     DocOf(LlmOf("anthropic", ""), OutputOf(ABSENT, ABSENT))}
GenUserTexts == {Malformed} \cup {TextOf(d) : d \in GenDocs}
GenEnvStates ==
    {e \in EnvStates :
        /\ e["COVER_ME_OUTPUT_DIR"] = UNSET
        /\ e["COVER_ME_LLM_PROVIDER"] \in {UNSET, "anthropic", "Gemini"}}

GenInit ==
    /\ userFile \in {NoFile} \cup GenUserTexts
    /\ defaultFile = ShippedDefault
    /\ legacyFile = NoFile
    /\ environ \in GenEnvStates
    /\ config = NoConfig
    /\ op = "none"
    /\ outcome = "ok"
    /\ msg = NoMsg
    /\ opened = {}
    /\ client = NoClient
    /\ Idle

\* generator = CoverLetterGenerator()
NewGenerator ==
    \E profile \in {"present", "missing"} :
        \E g \in {new_generator(profile)} :
            /\ ~exit.exited
            /\ op' = "new_generator"
            /\ outcome' = g.outcome
            /\ msg' = g.msg
            /\ wraps' = g.wraps
            /\ config' = g.config
            /\ client' = g.client
            /\ opened' = {}
            /\ disk' = [NoDisk EXCEPT !.profile =
                            IF g.outcome \in {"ok", "FileNotFoundError"}
                            THEN profile ELSE "unused"]
            /\ input' = NoInput
            /\ backend' = NoBackend
            /\ calls' = <<>>
            /\ letter' = NoValue
            /\ result' = NoValue
            /\ saved' = NotSaved
            /\ exit' = NoExit
            /\ UNCHANGED <<world, key, masked, texts, store>>

\* generator.llm_client.validate_api_key()
ValidateApiKey ==
    /\ ~exit.exited
    /\ client # NoClient
    /\ \E probe \in Probes :
        \E r \in {validate_api_key(client, probe)} :
            /\ op' = "validate_api_key"
            /\ outcome' = r.outcome
            /\ msg' = r.msg
            /\ wraps' = r.wraps
            /\ result' = r.value
            /\ calls' = <<"validate_api_key">>
            /\ backend' = [NoBackend EXCEPT !.probe = probe]
            /\ input' = NoInput
            /\ disk' = NoDisk
            /\ letter' = NoValue
            /\ saved' = NotSaved
            /\ exit' = NoExit
            /\ opened' = {}
            /\ UNCHANGED <<config, client, world, key, masked, texts, store>>

\* generator.llm_client.generate_cover_letter(system_prompt, professional_info, job_description)
GenerateCoverLetter ==
    /\ ~exit.exited
    /\ client # NoClient
    /\ \E resp \in ResponsesOf(client.variant) :
        \E r \in {generate_cover_letter(client, resp)} :
            /\ op' = "generate_cover_letter"
            /\ outcome' = r.outcome
            /\ msg' = r.msg
            /\ wraps' = r.wraps
            /\ result' = r.value
            /\ calls' = <<"generate_cover_letter">>
            /\ backend' = [NoBackend EXCEPT !.response = resp]
            /\ input' = NoInput
            /\ disk' = NoDisk
            /\ letter' = NoValue
            /\ saved' = NotSaved
            /\ exit' = NoExit
            /\ opened' = {}
            /\ UNCHANGED <<config, client, world, key, masked, texts, store>>

\* generator.generate(job_description)
Generate ==
    /\ ~exit.exited
    /\ client # NoClient
    /\ \E job_description \in Texts, probe \in Probes,
          resp \in ResponsesOf(client.variant) :
        \E r \in {generate(client, job_description, probe, resp)} :
            /\ op' = "generate"
            /\ outcome' = r.outcome
            /\ msg' = r.msg
            /\ wraps' = r.wraps
            /\ result' = r.value
            /\ calls' = r.calls
            /\ letter' = r.letter
            /\ backend' = Consulted(r.calls, probe, resp)
            /\ input' = [source |-> "argument", access |-> "ok", text |-> job_description]
            /\ disk' = NoDisk
            /\ saved' = NotSaved
            /\ exit' = NoExit
            /\ opened' = {}
            /\ UNCHANGED <<config, client, world, key, masked, texts, store>>

\* generator.generate_from_clipboard()
GenerateFromClipboard ==
    /\ ~exit.exited
    /\ client # NoClient
    /\ \E clip \in Clipboards, probe \in Probes,
          resp \in ResponsesOf(client.variant), output \in Outputs :
        \E r \in {generate_from_clipboard(config, client, clip, probe, resp, output)} :
            /\ op' = "generate_from_clipboard"
            /\ outcome' = r.outcome
            /\ msg' = r.msg
            /\ wraps' = r.wraps
            /\ result' = r.value
            /\ calls' = r.calls
            /\ letter' = r.letter
            /\ saved' = r.saved
            /\ backend' = Consulted(r.calls, probe, resp)
            /\ input' = [source |-> "clipboard", access |-> clip.access, text |-> clip.content]
            /\ disk' = [NoDisk EXCEPT !.output = IF r.saved.attempted THEN output ELSE "unused"]
            /\ exit' = NoExit
            /\ opened' = {}
            /\ UNCHANGED <<config, client, world, key, masked, texts, store>>

\* the `cover-me generate` process: main() -> cli() -> generate_command()
GenerateCommand ==
    /\ op = "none"
    /\ \E profile \in {"present", "missing"} :
       \E e \in {check_api_keys_early}, g \in {new_generator(profile)} :
       \E clip \in Clipboards, probe \in Probes,
          resp \in ResponsesOf(g.client.variant), output \in Outputs :
       \E x \in {generate_command(clip, probe, resp, profile, output)} :
            /\ op' = "generate_command"
            /\ outcome' = x.run.outcome
            /\ msg' = x.run.msg
            /\ wraps' = x.run.wraps
            /\ result' = x.run.value
            /\ calls' = x.run.calls
            /\ letter' = x.run.letter
            /\ saved' = x.run.saved
            /\ backend' = Consulted(x.run.calls, probe, resp)
            /\ input' = IF e.outcome = "ok" /\ g.outcome = "ok"
                        THEN [source |-> "clipboard", access |-> clip.access,
                              text |-> clip.content]
                        ELSE NoInput
            /\ disk' = [profile |-> IF e.outcome = "ok"
                                       /\ g.outcome \in {"ok", "FileNotFoundError"}
                                    THEN profile ELSE "unused",
                        output |-> IF x.run.saved.attempted THEN output ELSE "unused"]
            /\ exit' = [exited |-> TRUE, code |-> x.code, stderr |-> x.stderr]
            /\ opened' = {}
            /\ UNCHANGED <<config, client, world, key, masked, texts, store>>

GenNext ==
    \/ NewGenerator
    \/ ValidateApiKey
    \/ GenerateCoverLetter
    \/ Generate
    \/ GenerateFromClipboard
    \/ GenerateCommand

GenSpec == GenInit /\ [][GenNext]_vars

---------------------------------------------------------------------------
(* mask_api_key as a state machine: one call on a key drawn from Keys *)

MaskInit ==
    /\ userFile = NoFile
    /\ defaultFile = ShippedDefault
    /\ legacyFile = NoFile
    /\ environ = [n \in EnvNames |-> UNSET]
    /\ config = NoConfig
    /\ op = "none"
    /\ outcome = "ok"
    /\ msg = NoMsg
    /\ opened = {}
    /\ client = NoClient
    /\ input = NoInput
    /\ backend = NoBackend
    /\ disk = NoDisk
    /\ calls = <<>>
    /\ letter = NoValue
    /\ result = NoValue
    /\ wraps = <<>>
    /\ saved = NotSaved
    /\ exit = NoExit
    /\ key \in Keys
    /\ masked = <<>>
    /\ given = NoCall
    /\ returned = NoCall
    /\ files = NoFiles
    /\ before = NoSnapshot
    /\ session = NoSession
    /\ lastSaved = NoConfig

\* masked = mask_api_key(key)
MaskApiKey ==
    /\ op' = "mask_api_key"
    /\ masked' = mask_api_key(key)
    /\ UNCHANGED <<world, config, outcome, msg, opened, client, generation, key,
                   texts, store>>

MaskNext == MaskApiKey

MaskSpec == MaskInit /\ [][MaskNext]_vars

---------------------------------------------------------------------------
(* Text functions: template substitution, paragraphs, response text *)

\* A Python str is the sequence of its characters.
Whitespace == {" ", "\n"}

StartsWith(s, p) == Len(s) >= Len(p) /\ SubSeq(s, 1, Len(p)) = p
Drop(s, n) == SubSeq(s, n + 1, Len(s))

\* s.lstrip(), s.rstrip(), s.strip()
RECURSIVE str_lstrip(_)
str_lstrip(s) ==
    IF s # <<>> /\ s[1] \in Whitespace THEN str_lstrip(Tail(s)) ELSE s
RECURSIVE str_rstrip(_)
str_rstrip(s) ==
    IF s # <<>> /\ s[Len(s)] \in Whitespace
    THEN str_rstrip(SubSeq(s, 1, Len(s) - 1))
    ELSE s
str_strip(s) == str_rstrip(str_lstrip(s))

\* s.split(): the words of s, split at runs of whitespace (cur is the word
\* being read)
RECURSIVE str_split_from(_, _)
str_split_from(s, cur) ==
    LET done == IF cur = <<>> THEN <<>> ELSE <<cur>>
    IN  IF s = <<>> THEN done
        ELSE IF s[1] \in Whitespace
             THEN done \o str_split_from(Tail(s), <<>>)
             ELSE str_split_from(Tail(s), Append(cur, s[1]))
str_split(s) == str_split_from(s, <<>>)

\* s.split('\n\n'): the pieces of s between occurrences of two newlines
RECURSIVE str_split_blank_from(_, _)
str_split_blank_from(s, cur) ==
    IF s = <<>> THEN <<cur>>
    ELSE IF StartsWith(s, <<"\n", "\n">>)
         THEN <<cur>> \o str_split_blank_from(Drop(s, 2), <<>>)
         ELSE str_split_blank_from(Tail(s), Append(cur, s[1]))
str_split_blank(s) == str_split_blank_from(s, <<>>)

\* sep.join(parts)
RECURSIVE str_join(_, _)
str_join(sep, parts) ==
    IF parts = <<>> THEN <<>>
    ELSE IF Len(parts) = 1 THEN parts[1]
         ELSE parts[1] \o sep \o str_join(sep, Tail(parts))

\* PDFGenerator._substitute_variables -------------------------------------

\* the characters before the first "}": all that \s*([^}]+)\s* can cover
RECURSIVE NoBraceRun(_)
NoBraceRun(s) ==
    IF s = <<>> \/ s[1] = "}" THEN <<>> ELSE <<s[1]>> \o NoBraceRun(Tail(s))

NoMatch == [matched |-> FALSE, length |-> 0, group1 |-> <<>>]

\* the match of r'\{\{\s*([^}]+)\s*\}\}' at the start of s: the greedy \s*
\* takes the leading whitespace (all but one character of a run that is
\* whitespace only), the group takes the rest up to the closing braces
match_placeholder(s) ==
    IF ~StartsWith(s, <<"{", "{">>) THEN NoMatch
    ELSE LET run == NoBraceRun(Drop(s, 2))
         IN  IF run # <<>> /\ StartsWith(Drop(s, 2 + Len(run)), <<"}", "}">>)
             THEN [matched |-> TRUE, length |-> Len(run) + 4,
                   group1 |-> IF str_lstrip(run) = <<>>
                              THEN <<run[Len(run)]>>
                              ELSE str_lstrip(run)]
             ELSE NoMatch

\* replacer(match)
replacer(group1, variables) ==
    LET var_name == str_strip(group1)
    IN  IF var_name \in DOMAIN variables
        THEN variables[var_name]
        ELSE <<"{", "{", " ">> \o var_name \o <<" ", "}", "}">>

\* re.sub(pattern, replacer, html_content): leftmost matches, left to right
RECURSIVE substitute_variables(_, _)
substitute_variables(html_content, variables) ==
    IF html_content = <<>> THEN <<>>
    ELSE LET m == match_placeholder(html_content)
         IN  IF m.matched
             THEN replacer(m.group1, variables)
                    \o substitute_variables(Drop(html_content, m.length), variables)
             ELSE <<html_content[1]>>
                    \o substitute_variables(Tail(html_content), variables)

\* PDFGenerator._format_content_as_html -----------------------------------

\* the paragraphs kept: ' '.join(paragraph.split()) where that is not empty
RECURSIVE html_paragraphs(_)
html_paragraphs(paragraphs) ==
    IF paragraphs = <<>> THEN <<>>
    ELSE LET cleaned == str_join(<<" ">>, str_split(paragraphs[1]))
         IN  (IF cleaned # <<>>
              THEN <<(<<"<p>">> \o cleaned \o <<"</p>">>)>>
              ELSE <<>>) \o html_paragraphs(Tail(paragraphs))

format_content_as_html(content) ==
    IF str_strip(content) = <<>> THEN <<>>
    ELSE str_join(<<"\n">>, html_paragraphs(str_split_blank(str_strip(content))))

\* generate_cover_letter: the text taken from the backend's response ------

\* content_text += content_block.text for the blocks that have a text
RECURSIVE content_text(_)
content_text(content) ==
    IF content = <<>> THEN <<>>
    ELSE (IF content[1].has_text THEN content[1].text ELSE <<>>)
           \o content_text(Tail(content))

TextReturned(s) == [outcome |-> "ok", value |-> s, wraps |-> <<>>]
TextRaised(w) == [outcome |-> "Exception", value |-> <<>>, wraps |-> w]

Anthropic_response_text_first_block(content) ==
    IF content # <<>>
    THEN TextReturned(str_strip(content_text(<<content[1]>>)))
    ELSE TextRaised(<<"Anthropic API error: ", "No response received from Anthropic API">>)

Anthropic_response_text(content) ==
    IF content # <<>>
    THEN TextReturned(str_strip(content_text(content)))
    ELSE TextRaised(<<"Anthropic API error: ", "No response received from Anthropic API">>)

\* choices is the list of the response's messages' contents
OpenAI_response_text(choices) ==
    IF choices # <<>>
    THEN TextReturned(str_strip(choices[1]))
    ELSE TextRaised(<<"OpenAI API error: ", "No response received from OpenAI API">>)

\* CoverLetterGenerator._save_as_pdf --------------------------------------

\* A dict is a function from its keys, a value the sequence of its
\* characters. The pdf section of the configuration is absent, or holds no
\* template_variables entry, or holds a dict of them.
Dict(ks, v) == [k \in ks |-> v]
Update(d, e) == [k \in DOMAIN d \cup DOMAIN e |-> IF k \in DOMAIN e THEN e[k] ELSE d[k]]
EmptyDict == Dict({}, <<>>)

NoPdfSection == [kind |-> "absent", has_variables |-> FALSE, template_variables |-> EmptyDict]
PdfSection(has, d) == [kind |-> "map", has_variables |-> has, template_variables |-> d]
PdfSections ==
    {NoPdfSection, PdfSection(FALSE, EmptyDict), PdfSection(TRUE, EmptyDict),
     PdfSection(TRUE, Dict({"applicant_name"}, <<"B">>)),
     PdfSection(TRUE, Dict({"applicant_name", "cover_letter_content"}, <<"B">>))}

\* config.get('user', {}).get('name', '')
UserNames == {<<>>, <<"A">>}

\* what the generator's configuration holds for the PDF step
PdfConfigs == [user_name : UserNames, pdf : PdfSections]

\* get_default_template_variables(config): the dict it returns, and whether
\* that dict is the very object the configuration holds
get_default_template_variables_same_object(c) ==
    LET template_vars ==
            Update(Dict({"date"}, <<"d">>),
                   Update(Dict({"applicant_name"}, c.user_name),
                          Dict({"applicant_email", "applicant_phone",
                                "professional_title"}, <<>>)))
    IN  IF c.pdf.kind = "map" /\ c.pdf.has_variables
        THEN [same_object |-> TRUE, dict |-> c.pdf.template_variables]
        ELSE [same_object |-> FALSE, dict |-> template_vars]

get_default_template_variables(c) ==
    LET template_vars ==
            Update(Dict({"date"}, <<"d">>),
                   Update(Dict({"applicant_name"}, c.user_name),
                          Dict({"applicant_email", "applicant_phone",
                                "professional_title"}, <<>>)))
    IN  [same_object |-> FALSE,
         dict |-> IF c.pdf.kind = "map" /\ c.pdf.has_variables
                  THEN Update(template_vars, c.pdf.template_variables)
                  ELSE template_vars]

\* what the template file and the PDF renderer do
Templates == {"found", "missing"}
Renders == {"ok", "fails"}

\* generate_pdf(content, template_variables, ...): its outcome and the dict
\* it was given, as the call leaves it
generate_pdf(content, template_variables, template, render) ==
    IF template = "missing"
    THEN [outcome |-> "Exception", wraps |-> <<"Failed to generate PDF: ">>,
          template_variables |-> template_variables]
    ELSE LET filled == Update(template_variables,
                              Dict({"cover_letter_content"},
                                   format_content_as_html(content)))
         IN  IF render = "fails"
             THEN [outcome |-> "Exception", wraps |-> <<"Failed to generate PDF: ">>,
                   template_variables |-> filled]
             ELSE [outcome |-> "ok", wraps |-> <<>>, template_variables |-> filled]

\* _save_as_pdf(cover_letter, file_path): its outcome, the dict handed to
\* generate_pdf and self.config, both as the call leaves them
save_as_pdf(c, cover_letter, template, render) ==
    LET template_vars == get_default_template_variables(c)
        g == generate_pdf(cover_letter, template_vars.dict, template, render)
    IN  [outcome |-> g.outcome, wraps |-> g.wraps,
         template_variables |-> g.template_variables,
         config |-> IF template_vars.same_object
                    THEN [c EXCEPT !.pdf.template_variables = g.template_variables]
                    ELSE c]

\* Inputs of the text functions -------------------------------------------

MaxTemplateLen == 7
MaxContentLen == 5
MaxBlocks == 2
MaxBlockLen == 2

SeqsUpTo(S, n) == UNION {[1..k -> S] : k \in 0..n}

TemplateChars == {"{", "}", " ", "n"}
HtmlTemplates == SeqsUpTo(TemplateChars, MaxTemplateLen)
VariableDicts == {EmptyDict, [k \in {<<"n">>} |-> <<"V">>]}

ContentChars == {"a", "b", " ", "\n"}
Contents == SeqsUpTo(ContentChars, MaxContentLen)

BlockChars == {"a", " "}
BlockTexts == SeqsUpTo(BlockChars, MaxBlockLen)
ContentBlocks ==
    {[has_text |-> TRUE, text |-> t] : t \in BlockTexts}
      \cup {[has_text |-> FALSE, text |-> <<>>]}
ResponseContents == SeqsUpTo(ContentBlocks, MaxBlocks)

Variants == {SupportedProviders[i] : i \in DOMAIN SupportedProviders}

Letters == {<<>>, <<"a">>, <<"a", "\n", "\n", "b">>}

SubstituteCalls ==
    {[fn |-> "_substitute_variables", html_content |-> h, variables |-> v] :
        h \in HtmlTemplates, v \in VariableDicts}
FormatCalls ==
    {[fn |-> "_format_content_as_html", content |-> c] : c \in Contents}
ResponseCalls ==
    {[fn |-> "response_text", variant |-> v, response_content |-> c] :
        v \in Variants, c \in ResponseContents}
SavePdfCalls ==
    {[fn |-> "_save_as_pdf", config |-> c, cover_letter |-> l,
      template |-> t, render |-> r] :
        c \in PdfConfigs, l \in Letters, t \in Templates, r \in Renders}

TextInit ==
    /\ userFile = NoFile
    /\ defaultFile = ShippedDefault
    /\ legacyFile = NoFile
    /\ environ = [n \in EnvNames |-> UNSET]
    /\ config = NoConfig
    /\ op = "none"
    /\ outcome = "ok"
    /\ msg = NoMsg
    /\ opened = {}
    /\ client = NoClient
    /\ input = NoInput
    /\ backend = NoBackend
    /\ disk = NoDisk
    /\ calls = <<>>
    /\ letter = NoValue
    /\ result = NoValue
    /\ wraps = <<>>
    /\ saved = NotSaved
    /\ exit = NoExit
    /\ key = <<>>
    /\ masked = <<>>
    /\ given \in SubstituteCalls \cup FormatCalls \cup ResponseCalls \cup SavePdfCalls
    /\ returned = NoCall
    /\ files = NoFiles
    /\ before = NoSnapshot
    /\ session = NoSession
    /\ lastSaved = NoConfig

TextFrame ==
    UNCHANGED <<world, config, outcome, msg, opened, client, generation, key,
                masked, given, store>>

\* html_content = self._substitute_variables(html_content, template_variables)
SubstituteVariables ==
    /\ op = "none"
    /\ given.fn = "_substitute_variables"
    /\ op' = "_substitute_variables"
    /\ returned' = substitute_variables(given.html_content, given.variables)
    /\ TextFrame

\* self._format_content_as_html(content)
FormatContentAsHtml ==
    /\ op = "none"
    /\ given.fn = "_format_content_as_html"
    /\ op' = "_format_content_as_html"
    /\ returned' = format_content_as_html(given.content)
    /\ TextFrame

\* the end of generate_cover_letter: the backend sends its text as the
\* content blocks of an Anthropic response, or as the one message content
\* of an OpenAI response
ResponseText ==
    /\ op = "none"
    /\ given.fn = "response_text"
    /\ op' = "response_text"
    /\ returned' = IF given.variant = "anthropic"
                   THEN Anthropic_response_text(given.response_content)
                   ELSE OpenAI_response_text(
                            IF given.response_content = <<>> THEN <<>>
                            ELSE <<content_text(given.response_content)>>)
    /\ TextFrame

\* self._save_as_pdf(cover_letter, file_path)
SaveAsPdf ==
    /\ op = "none"
    /\ given.fn = "_save_as_pdf"
    /\ op' = "_save_as_pdf"
    /\ returned' = save_as_pdf(given.config, given.cover_letter,
                               given.template, given.render)
    /\ TextFrame

TextNext ==
    \/ SubstituteVariables
    \/ FormatContentAsHtml
    \/ ResponseText
    \/ SaveAsPdf

TextSpec == TextInit /\ [][TextNext]_vars

---------------------------------------------------------------------------
(* The user directory: save_config, setup and configure *)

\* yaml.dump(config, f, default_flow_style=False, indent=2): the text of a
\* mapping
yaml_dump(c) == TextOf(c)

\* what a call leaves of the user directory: its outcome, the configuration
\* file, the other files, and the configuration save_config was given
\* (NoConfig when it was not called or failed)
Stored(out, why, file, fs, c) ==
    [outcome |-> out, why |-> why, config_file |-> file, files |-> fs, saved |-> c]
Untouched(out, why) == Stored(out, why, userFile, files, NoConfig)

\* mutant of save_config: only the llm section is written
save_config_llm_only(c, to) ==
    IF to = "write_fails" THEN Untouched("OSError", "open")
    ELSE Stored("ok", "saved",
                yaml_dump([c EXCEPT !.output = NonMapOutput("absent")]), files, c)

\* save_config(config): with open(self.user_config_file, 'w') as f: yaml.dump(...)
save_config(c, to) ==
    IF to = "write_fails" THEN Untouched("OSError", "open")
    ELSE Stored("ok", "saved", yaml_dump(c), files, c)

\* copy_defaults_to_user(): each default is copied where the user directory
\* has no file of that name
copy_defaults_to_user(file, fs) ==
    Stored("ok", "copied",
           IF file = NoFile /\ defaultFile # NoFile THEN defaultFile ELSE file,
           [f \in DOMAIN fs |-> IF fs[f] = "absent" THEN "default" ELSE fs[f]],
           NoConfig)

\* create_profile_template(): with open(user_profile_file, 'w') as f: f.write(template)
create_profile_template(fs) == [fs EXCEPT !.profile = "template"]

\* mutant of select_llm_provider: the API key is put where the model goes
select_llm_provider_with_key(provider) ==
    [kind |-> "map", provider |-> provider,
     model |-> environ[IF provider = "openai" THEN "OPENAI_API_KEY" ELSE "ANTHROPIC_API_KEY"]]

\* select_llm_provider(): the llm section made of the provider chosen and
\* of its first model
select_llm_provider(provider) ==
    [kind |-> "map", provider |-> provider,
     model |-> IF provider = "openai" THEN "gpt-4.1-mini" ELSE "claude-3-5-haiku-latest"]

\* env_var = f"{provider.upper()}_API_KEY"
api_key_env_var(provider) ==
    IF provider = "openai" THEN "OPENAI_API_KEY" ELSE "ANTHROPIC_API_KEY"

\* test_api_connection_from_env(provider): create_llm_client(test_config)
\* and validate_api_key(), any exception giving False
test_api_connection_from_env(provider, probe) ==
    LET r == create_llm_client(
                 [kind |-> "map", provider |-> provider,
                  model |-> IF provider = "openai" THEN "gpt-4o-mini"
                            ELSE "claude-3-5-haiku-20241022"])
    IN  IF r.outcome # "ok" THEN FALSE
        ELSE validate_api_key(r.client, probe).value = Text("True").value

\* mutant of configure_api_key_environment: a key that is set is not probed
configure_api_key_environment_no_probe(provider, probes, confirmed) ==
    IF environ[api_key_env_var(provider)] # UNSET THEN "ok"
    ELSE IF ~confirmed THEN "SetupError"
    ELSE "ConfigurationError"

\* configure_api_key_environment(provider): returns when the key is in the
\* environment and passes the probe, at once or after the user said it is set
configure_api_key_environment(provider, probes, confirmed) ==
    IF /\ environ[api_key_env_var(provider)] # UNSET
       /\ test_api_connection_from_env(provider, probes[1])
    THEN "ok"
    ELSE IF ~confirmed THEN "SetupError"
    ELSE IF environ[api_key_env_var(provider)] = UNSET THEN "ConfigurationError"
    ELSE IF test_api_connection_from_env(provider, probes[2]) THEN "ok"
    ELSE "ConfigurationError"

SaveLocation == "~/Desktop/cover-letters"

\* configure_output_preferences()
configure_output_preferences(format) ==
    [kind |-> "map", format |-> format, output_dir |-> SaveLocation]

\* save_configuration(config_manager, config) and create_profile_template
save_sequence(c, to) ==
    IF to = "write_fails" THEN Untouched(1, "SetupError")
    ELSE LET copied == copy_defaults_to_user(userFile, files)
         IN  Stored(0, "complete", yaml_dump(c),
                    create_profile_template(copied.files), c)

\* setup_command(): s holds what the user answers and what the backend and
\* the disk do: overwrite (the answer to "overwrite?"), provider, probes,
\* confirmed (the answer to "have you set the variable?"), interrupt (where
\* the user interrupts, if anywhere), format, to
setup_command(s) ==
    IF has_user_config /\ ~s.overwrite THEN Untouched(0, "cancelled")
    ELSE IF s.interrupt = "provider" THEN Untouched(1, "interrupted")
    ELSE IF configure_api_key_environment(s.provider, s.probes, s.confirmed) # "ok"
    THEN Untouched(1, configure_api_key_environment(s.provider, s.probes, s.confirmed))
    ELSE IF s.interrupt = "preferences" THEN Untouched(1, "interrupted")
    ELSE save_sequence([kind |-> "map",
                        llm |-> select_llm_provider(s.provider),
                        output |-> configure_output_preferences(s.format)],
                       s.to)

\* show_current_config(config) reads config['output']['format'] and
\* config['output']['output_dir']
show_current_config(c) ==
    IF c.output.kind # "map" THEN "TypeError"
    ELSE IF c.output.format = ABSENT \/ c.output.output_dir = ABSENT THEN "KeyError"
    ELSE "ok"

\* the menu choices 1, 3 and 4 of the configuration loop
edit_config(c, s) ==
    LET c1 == IF s.llm_edit = "keep" THEN c
              ELSE [c EXCEPT !.llm.provider = select_llm_provider(s.llm_edit).provider,
                             !.llm.model = select_llm_provider(s.llm_edit).model]
        c2 == IF s.format_edit = "keep" THEN c1
              ELSE [c1 EXCEPT !.output.format = s.format_edit]
    IN  IF s.dir_edit = "keep" THEN c2
        ELSE [c2 EXCEPT !.output.output_dir = s.dir_edit]

\* configure_command(): s holds the edits the user makes (llm_edit,
\* format_edit, dir_edit), how the session ends (ending: choice 0, or the
\* user aborts at a prompt) and what the disk does (to)
configure_command(s) ==
    IF ~has_user_config THEN Untouched(1, "no_configuration")
    ELSE IF load_config.outcome # "ok" THEN Untouched(1, load_config.outcome)
    ELSE IF validate_config(load_config.config).outcome # "ok"
    THEN Untouched(1, validate_config(load_config.config).outcome)
    ELSE IF show_current_config(load_config.config) # "ok"
    THEN Untouched(1, show_current_config(load_config.config))
    ELSE IF s.ending = "abort" THEN Untouched(1, "aborted")
    ELSE save_config(edit_config(load_config.config, s), s.to)

\* The store machine ------------------------------------------------------

MaxCommands == 1

StoredDoc(p, m, f, d) ==
    [kind |-> "map",
     llm |-> [kind |-> "map", provider |-> p, model |-> m],
     output |-> [kind |-> "map", format |-> f, output_dir |-> d]]

\* the configurations callers hand to save_config
SaveDocs ==
    {EmptyMap,
     StoredDoc("openai", "gpt-4o", "pdf", "out"),
     StoredDoc("anthropic", "", "text", "out"),
     [kind |-> "map", llm |-> NonMapLlm("null"), output |-> EmptyOutput],
     [kind |-> "map", llm |-> [kind |-> "map", provider |-> "gemini", model |-> ABSENT],
      output |-> NonMapOutput("absent")]}

StoreUserTexts == {NoFile, TextOf(StoredDoc("openai", "gpt-4o", "pdf", "out"))}

StoreEnvStates ==
    {e \in EnvStates :
        /\ e["COVER_ME_LLM_PROVIDER"] \in {UNSET, "anthropic"}
        /\ e["OPENAI_API_KEY"] \in {UNSET, "sk-openai-key"}
        /\ e["ANTHROPIC_API_KEY"] \in {"", "sk-ant-key"}}

\* the other files of the user directory: absent, or written by the user
StoreFiles ==
    {fs \in [profile : {"absent", "user"}, system_prompt : {"absent", "user"},
             template : {"absent", "user"}] :
        fs.system_prompt = fs.template}

SetupProbes == {"ok", "auth_error"}

StoreInit ==
    /\ userFile \in StoreUserTexts
    /\ defaultFile = ShippedDefault
    /\ legacyFile = NoFile
    /\ environ \in StoreEnvStates
    /\ config = NoConfig
    /\ op = "none"
    /\ outcome = "ok"
    /\ msg = NoMsg
    /\ opened = {}
    /\ client = NoClient
    /\ input = NoInput
    /\ backend = NoBackend
    /\ disk = NoDisk
    /\ calls = <<>>
    /\ letter = NoValue
    /\ result = NoValue
    /\ wraps = <<>>
    /\ saved = NotSaved
    /\ exit = NoExit
    /\ key = <<>>
    /\ masked = <<>>
    /\ given = NoCall
    /\ returned = NoCall
    /\ files \in StoreFiles
    /\ before = NoSnapshot
    /\ session = NoSession
    /\ lastSaved = NoConfig

\* what a command leaves: the user directory as the call left it, the
\* directory as it found it, and the process state of a command that ended
Leave(name, s, r) ==
    /\ op' = name
    /\ outcome' = r.why
    /\ userFile' = r.config_file
    /\ files' = r.files
    /\ before' = [config |-> userFile, files |-> files]
    /\ session' = [command |-> name, n |-> session.n + 1, code |-> r.outcome,
                   answers |-> s]
    /\ lastSaved' = IF r.saved # NoConfig THEN r.saved ELSE lastSaved
    /\ config' = NoConfig
    /\ client' = NoClient
    /\ msg' = NoMsg
    /\ opened' = {}
    /\ UNCHANGED <<defaultFile, legacyFile, environ, generation, key, masked, texts>>

\* config_manager.save_config(c)
SaveConfig ==
    /\ session.n < MaxCommands
    /\ \E c \in SaveDocs, to \in Outputs :
         \E r \in {save_config(c, to)} :
            Leave("save_config", [config |-> c, to |-> to], r)

\* cover-me setup
SetupCommand ==
    /\ session.n < MaxCommands
    /\ \E overwrite \in IF has_user_config THEN BOOLEAN ELSE {TRUE},
          provider \in Variants,
          interrupt \in {"none", "provider", "preferences"} :
         \E p1 \in IF overwrite /\ interrupt # "provider" /\ environ[api_key_env_var(provider)] # UNSET
                   THEN SetupProbes ELSE {"unused"} :
         \E confirmed \in IF overwrite /\ interrupt # "provider" /\ p1 # "ok"
                          THEN BOOLEAN ELSE {FALSE} :
         \E p2 \in IF confirmed /\ p1 # "unused" THEN SetupProbes ELSE {"unused"} :
         \E format \in IF overwrite /\ interrupt = "none" /\ "ok" \in {p1, p2}
                       THEN {"pdf", "text"} ELSE {"unused"} :
         \E to \in IF format # "unused" THEN Outputs ELSE {"unused"} :
         \E s \in {[overwrite |-> overwrite, provider |-> provider,
                    probes |-> <<p1, p2>>, confirmed |-> confirmed,
                    interrupt |-> interrupt, format |-> format, to |-> to]} :
         \E r \in {setup_command(s)} :
            Leave("setup_command", s, r)

\* cover-me configure
ConfigureCommand ==
    /\ session.n < MaxCommands
    /\ \E llm_edit \in {"keep", "openai", "anthropic"},
          format_edit \in {"keep", "text"},
          dir_edit \in {"keep", "/new/out"},
          ending \in {"save", "abort"} :
         \E to \in IF ending = "save" THEN Outputs ELSE {"unused"} :
         \E s \in {[llm_edit |-> llm_edit, format_edit |-> format_edit,
                    dir_edit |-> dir_edit, ending |-> ending, to |-> to]} :
         \E r \in {configure_command(s)} :
            Leave("configure_command", s, r)

StoreNext ==
    \/ SaveConfig
    \/ SetupCommand
    \/ ConfigureCommand
    \/ LoadConfig
    \/ CreateLlmClient

StoreSpec == StoreInit /\ [][StoreNext]_vars

---------------------------------------------------------------------------
(* Claims *)

ProviderVar == "COVER_ME_LLM_PROVIDER"
OutputDirVar == "COVER_ME_OUTPUT_DIR"

\* the document a well-formed configuration file stands for
ParsedFile(text) == IF text.doc.kind = "null" THEN EmptyMap ELSE text.doc

\* ret is base except for the two fields an override variable replaces
SameButOverridden(ret, base) ==
    /\ ret.kind = base.kind
    /\ IF environ[ProviderVar] = UNSET
       THEN ret.llm = base.llm
       ELSE ret.llm.model = base.llm.model
    /\ IF environ[OutputDirVar] = UNSET
       THEN ret.output = base.output
       ELSE ret.output.format = base.output.format

\* the installation default load_config falls back to: defaults/config.yaml,
\* or the legacy copy of it when that one is missing
InstallationDefault == IF defaultFile # NoFile THEN defaultFile ELSE legacyFile

\* C1: load_config chooses its base by source.  With a user file, only the
\* user file is opened and the returned configuration is the parsed user file
\* (but for the overridden fields); without one, the same holds of the
\* installation default; with neither, load_config raises ConfigurationError
\* and opens nothing.
C1_BaseBySource ==
    op = "load_config" =>
        /\ userFile # NoFile =>
             /\ opened = {"user"}
             /\ userFile.yaml = "bad" => outcome = "ConfigurationError"
             /\ outcome = "ok" => SameButOverridden(config, ParsedFile(userFile))
        /\ (userFile = NoFile /\ InstallationDefault # NoFile) =>
             /\ opened \in {{"default"}, {"legacy"}}
             /\ InstallationDefault.yaml = "bad" => outcome = "ConfigurationError"
             /\ outcome = "ok" => SameButOverridden(config, ParsedFile(InstallationDefault))
        /\ (userFile = NoFile /\ InstallationDefault = NoFile) =>
             /\ outcome = "ConfigurationError"
             /\ opened = {}

\* C1 witness: a user file and a different installation default both exist,
\* and load_config has returned the user file's content.
C1_Witness ==
    /\ op = "load_config"
    /\ outcome = "ok"
    /\ userFile # NoFile
    /\ defaultFile = ShippedDefault
    /\ config.kind = "map"
    /\ config.llm.model = ""
    /\ config.output.format = "text"

\* the sections of a base are mappings where they are present
WellShaped(base) ==
    /\ base.kind = "map"
    /\ base.llm.kind \in {"absent", "map"}
    /\ base.output.kind \in {"absent", "map"}

\* C2: whatever the base (user file or default, with or without an llm or
\* output section), load_config returns, and the configuration it returns
\* has llm.provider = COVER_ME_LLM_PROVIDER when that is set and
\* output.output_dir = COVER_ME_OUTPUT_DIR when that is set; a field whose
\* variable is not set keeps the value of the base.
C2_EnvOverrides ==
    (op = "load_config" /\ load_base.outcome = "ok") =>
        /\ WellShaped(load_base.config) => outcome = "ok"
        /\ outcome = "ok" =>
             /\ environ[ProviderVar] # UNSET =>
                  /\ config.llm.kind = "map"
                  /\ config.llm.provider = environ[ProviderVar]
             /\ environ[OutputDirVar] # UNSET =>
                  /\ config.output.kind = "map"
                  /\ config.output.output_dir = environ[OutputDirVar]
             /\ environ[ProviderVar] = UNSET =>
                  config.llm.provider = load_base.config.llm.provider
             /\ environ[OutputDirVar] = UNSET =>
                  config.output.output_dir = load_base.config.output.output_dir

\* C2 witness: both variables are set and the base is a user file with neither
\* an llm nor an output section; load_config has returned both overrides.
C2_Witness ==
    /\ op = "load_config"
    /\ outcome = "ok"
    /\ userFile # NoFile
    /\ userFile.doc.kind = "map"
    /\ userFile.doc.llm.kind = "absent"
    /\ userFile.doc.output.kind = "absent"
    /\ config.llm.provider = "ANTHROPIC"
    /\ config.output.output_dir = "/env/out"

\* the environment variable that holds a supported provider's key
KeyVar(p) == IF p = "openai" THEN "OPENAI_API_KEY" ELSE "ANTHROPIC_API_KEY"

Supported == {"openai", "anthropic"}

\* C3: validate_config raises ConfigurationError on a mapping configuration
\* that has any one of these defects: no llm section; no output section; no
\* llm.provider; an llm.provider other than openai / anthropic; no llm.model;
\* the selected provider's key variable not in the environment.
C3_ValidateRejects ==
    (op = "validate_config" /\ config.kind = "map") =>
        /\ config.llm.kind = "absent" => outcome = "ConfigurationError"
        /\ config.output.kind = "absent" => outcome = "ConfigurationError"
        /\ config.llm.kind = "map" =>
             /\ config.llm.provider = ABSENT => outcome = "ConfigurationError"
             /\ config.llm.provider \notin Supported => outcome = "ConfigurationError"
             /\ config.llm.model = ABSENT => outcome = "ConfigurationError"
             /\ (config.llm.provider \in Supported
                 /\ environ[KeyVar(config.llm.provider)] = UNSET)
                    => outcome = "ConfigurationError"

\* C3 witness: an otherwise valid configuration whose only defect is the
\* missing llm.model has been rejected.
C3_Witness ==
    /\ op = "validate_config"
    /\ outcome = "ConfigurationError"
    /\ config.kind = "map"
    /\ config.llm.kind = "map"
    /\ config.llm.provider = "openai"
    /\ config.llm.model = ABSENT
    /\ config.output.kind = "map"
    /\ environ["OPENAI_API_KEY"] = "sk-openai-key"

\* the four conditions of C4
FourConditions(c) ==
    /\ c.kind = "map"
    /\ c.llm.kind = "map"
    /\ c.llm.provider # ABSENT
    /\ c.llm.provider \in Supported
    /\ environ[KeyVar(c.llm.provider)] # UNSET

\* C4 as claimed: validate_config accepts every configuration with an llm
\* section, an llm.provider, a supported provider and that provider's key
\* variable in the environment.
C4_Original ==
    (op = "validate_config" /\ FourConditions(config)) => outcome = "ok"

\* C4 amended: validate_config accepts every configuration that meets the
\* four conditions and also has an output section and an llm.model.
C4_ValidateAccepts ==
    (/\ op = "validate_config"
     /\ FourConditions(config)
     /\ config.output.kind # "absent"
     /\ config.llm.model # ABSENT) => outcome = "ok"

\* C4 witness: a configuration meeting all six conditions has been accepted
\* while the other provider's key is not set.
C4_Witness ==
    /\ op = "validate_config"
    /\ outcome = "ok"
    /\ config.llm.provider = "anthropic"
    /\ environ["ANTHROPIC_API_KEY"] # UNSET
    /\ environ["OPENAI_API_KEY"] = UNSET

\* C5: a configuration that load_config returned and validate_config accepted
\* has llm.provider in {openai, anthropic}, a non-empty llm.model and
\* output.format in {pdf, text}.
C5_DataModelInvariant ==
    (op = "validate_config" /\ outcome = "ok") =>
        /\ config.llm.provider \in Supported
        /\ config.llm.model \notin {ABSENT, ""}
        /\ config.output.format \in {"pdf", "text"}

\* C6: a configuration naming a provider whose key variable is unset or
\* empty is rejected by validate_config with ConfigurationError, and a
\* configuration validate_config accepts never makes the client constructor
\* fail for lack of an API key.
C6_NoUsableKeyRejected ==
    /\ (/\ op = "validate_config"
        /\ config.kind = "map"
        /\ config.llm.kind = "map"
        /\ config.llm.provider \in Supported
        /\ ~TruthyStr(environ[KeyVar(config.llm.provider)]))
           => outcome = "ConfigurationError"
    /\ (op = "create_llm_client" /\ validate_config(config).outcome = "ok")
           => msg.kind # "env_var_required"

\* C7: without a user file check_api_keys_early raises ConfigurationError and
\* opens no configuration file; with a loadable user file it opens it and
\* ends either normally or with ConfigurationError, normally exactly when
\* the selected provider's key variable is in the environment.
C7_EarlyCheckOutcomes ==
    op = "check_api_keys_early" =>
        /\ userFile = NoFile => (outcome = "ConfigurationError" /\ opened = {})
        /\ (userFile # NoFile /\ load_config.outcome = "ok") =>
             /\ opened = {"user"}
             /\ outcome \in {"ok", "ConfigurationError"}
             /\ load_config.config.llm.provider \in Supported =>
                  (outcome = "ok"
                     <=> environ[KeyVar(load_config.config.llm.provider)] # UNSET)

\* the client class of a supported provider
VariantOf(p) == IF p = "openai" THEN "OpenAIClient" ELSE "AnthropicClient"

\* the llm mapping handed to the factory names, in some letter-casing, a
\* supported provider
NamesSupported(c) ==
    /\ c.kind = "map"
    /\ c.llm.kind = "map"
    /\ c.llm.provider # ABSENT
    /\ Lower(c.llm.provider) \in Supported

UnsupportedError(named) ==
    /\ outcome = "ValueError"
    /\ client = NoClient
    /\ msg.kind = "unsupported_llm_provider"
    /\ msg.value = named
    /\ msg.supported = <<"openai", "anthropic">>

\* C9 as claimed: for every provider value outside {openai, anthropic} (in
\* any letter-casing) the factory constructs no client and raises an
\* unsupported-provider error that names that value, as it was given, and
\* lists the supported set.
C9_Original ==
    (/\ op = "create_llm_client"
     /\ config.kind = "map"
     /\ config.llm.kind = "map"
     /\ config.llm.provider # ABSENT
     /\ Lower(config.llm.provider) \notin Supported)
        => UnsupportedError(config.llm.provider)

\* C9 amended: for every provider value whose lower-cased form is outside
\* {openai, anthropic} the factory constructs no client and raises an
\* unsupported-provider error (a ValueError) that names the lower-cased
\* value and lists the supported set.
C9_UnsupportedProvider ==
    (/\ op = "create_llm_client"
     /\ config.kind = "map"
     /\ config.llm.kind = "map"
     /\ config.llm.provider # ABSENT
     /\ Lower(config.llm.provider) \notin Supported)
        => UnsupportedError(Lower(config.llm.provider))

\* C9 witness: the provider field holds Gemini and the factory has raised the
\* error naming gemini.
C9_Witness ==
    /\ op = "create_llm_client"
    /\ config.llm.provider = "Gemini"
    /\ outcome = "ValueError"
    /\ msg.value = "gemini"
    /\ client = NoClient

\* C10: the factory returns a client of variant V only for an llm mapping
\* whose provider field names V, and given a mapping without a provider
\* field it fails and returns no client.
C10_NoSilentDefault ==
    (op = "create_llm_client" /\ config.kind = "map") =>
        /\ client # NoClient =>
             /\ config.llm.provider # ABSENT
             /\ client.variant = VariantOf(Lower(config.llm.provider))
        /\ (config.llm.kind \in {"absent", "map"} /\ config.llm.provider = ABSENT) =>
             (outcome # "ok" /\ client = NoClient)

\* C11: generate called with a job description that is empty or only
\* whitespace raises a validation error (ValueError, "Job description cannot
\* be empty"), and in that call no method of the provider client is invoked.
C11_BlankDescription ==
    (op = "generate" /\ Strip(input.text) = "") =>
        /\ outcome = "ValueError"
        /\ msg = Msg("job_description_empty", "")
        /\ calls = <<>>
        /\ backend = NoBackend

\* C11 witness: generate has been called on a constructed generator with a
\* whitespace-only description and has raised without calling the client.
C11_Witness ==
    /\ op = "generate"
    /\ input.text = "  \n"
    /\ client.variant = "AnthropicClient"
    /\ outcome = "ValueError"
    /\ calls = <<>>

\* the position of a method in the calls of the last operation (0: not called)
CalledAt(method) ==
    IF \E i \in 1..Len(calls) : calls[i] = method
    THEN CHOOSE i \in 1..Len(calls) : calls[i] = method
    ELSE 0

\* C12: in generate with a non-blank job description the probe
\* validate_api_key is the first client call and precedes generate_cover_letter;
\* when the probe fails generate_cover_letter is not called; and when either
\* step fails generate raises one generation-failure error ("Failed to generate
\* cover letter: ...") whose message ends with the text of the cause: the
\* probe's failure text, or the whole message of the error that left
\* generate_cover_letter.
C12_ProbeThenGenerate ==
    (op = "generate" /\ Strip(input.text) # "") =>
        /\ CalledAt("validate_api_key") = 1
        /\ CalledAt("generate_cover_letter") \in {0, 2}
        /\ Len(calls) <= 2
        /\ backend.probe # "ok" =>
             /\ CalledAt("generate_cover_letter") = 0
             /\ outcome = "Exception"
             /\ wraps = <<GenerationFailed>>
             /\ msg = ProbeFailed
        /\ (backend.probe = "ok"
            /\ generate_cover_letter(client, backend.response).outcome # "ok") =>
             /\ outcome = "Exception"
             /\ wraps = <<GenerationFailed>>
                        \o generate_cover_letter(client, backend.response).wraps
             /\ msg = generate_cover_letter(client, backend.response).msg
        /\ outcome \in {"ok", "Exception"}

\* C12 witness: the probe succeeded, the generation request raised an SDK
\* error, and generate has raised the generation-failure error carrying it.
C12_Witness ==
    /\ op = "generate"
    /\ input.text = "Backend engineer"
    /\ calls = <<"validate_api_key", "generate_cover_letter">>
    /\ backend.probe = "ok"
    /\ backend.response.kind = "error"
    /\ outcome = "Exception"
    /\ wraps = <<GenerationFailed, "OpenAI API error">>
    /\ msg = Text("Connection error.")

\* the clipboard input of the last operation was rejected
ClipboardRejected ==
    \/ input.access # "ok"
    \/ Strip(input.text) = ""
    \/ TextLen(Strip(input.text)) > MaxSizeBytes

\* C13: in generate_from_clipboard the save step is attempted exactly when
\* generate has returned a letter; a file is written only then; and when
\* the clipboard input is rejected, the probe fails or the generation call
\* raises, no save is attempted and no file is written.
C13_SaveOnlyAfterSuccess ==
    op = "generate_from_clipboard" =>
        /\ saved.attempted <=> letter # NoValue
        /\ saved.file # NoOutputFile =>
             /\ letter # NoValue
             /\ saved.file.content = letter
             /\ calls = <<"validate_api_key", "generate_cover_letter">>
        /\ ClipboardRejected => (calls = <<>> /\ saved = NotSaved)
        /\ (~ClipboardRejected /\ backend.probe # "ok") => saved = NotSaved
        /\ (~ClipboardRejected /\ backend.probe = "ok"
            /\ generate_cover_letter(client, backend.response).outcome # "ok")
               => saved = NotSaved
        /\ (~ClipboardRejected /\ backend.probe = "ok"
            /\ generate_cover_letter(client, backend.response).outcome = "ok")
               => saved.attempted

\* C13 witness: the clipboard held a description, the probe and the
\* generation call succeeded, and the letter has been written as a PDF file.
C13_Witness ==
    /\ op = "generate_from_clipboard"
    /\ input.text = "  Backend engineer\n"
    /\ letter = "Dear team"
    /\ saved.attempted
    /\ saved.file.extension = "pdf"
    /\ saved.file.content = "Dear team"
    /\ outcome = "ok"

\* the backend's response is empty or absent
EmptyResponse(r) ==
    \/ r.kind \in {"empty", "no_message", "no_text"}
    \/ r.kind = "text" /\ r.text = ""

\* C14: generate_cover_letter of either client raises, and returns no value,
\* whenever the backend's response is empty or absent: no choices / no
\* content blocks, no message content, or an empty response text.
C14_EmptyResponseFails ==
    (op = "generate_cover_letter" /\ EmptyResponse(backend.response)) =>
        /\ outcome # "ok"
        /\ result = NoValue

\* C15: validate_api_key of either client never raises: it returns True when
\* the probe request succeeds and False when the probe request fails, whatever
\* the failure.
C15_ProbeNeverRaises ==
    op = "validate_api_key" =>
        /\ outcome = "ok"
        /\ backend.probe = "ok" => result = "True"
        /\ backend.probe # "ok" => result = "False"

\* C15 witness: the probe request of an OpenAI client failed with a
\* connection error and validate_api_key has returned False.
C15_Witness ==
    /\ op = "validate_api_key"
    /\ client.variant = "OpenAIClient"
    /\ backend.probe = "connection_error"
    /\ outcome = "ok"
    /\ result = "False"

\* the prefix that names the provider of a client
ProviderLabel(cl) ==
    IF cl.variant = "OpenAIClient" THEN "OpenAI API error" ELSE "Anthropic API error"

\* C16: every error that leaves generate_cover_letter is a wrapped error
\* (never the SDK's own exception class) whose message is the provider's
\* label followed by the text of the cause; for a transport or backend fault
\* the cause text is the text of the SDK error.
C16_WrappedErrors ==
    (op = "generate_cover_letter" /\ outcome # "ok") =>
        /\ outcome = "Exception"
        /\ wraps = <<ProviderLabel(client)>>
        /\ msg.kind = "text"
        /\ msg.value # ""
        /\ backend.response.kind = "error" => msg = Text(backend.response.cause)

\* C16 witness: the generation request of an Anthropic client raised an SDK
\* error and generate_cover_letter has raised the wrapped error.
C16_Witness ==
    /\ op = "generate_cover_letter"
    /\ client.variant = "AnthropicClient"
    /\ backend.response = Response("error", "", "Incorrect API key provided")
    /\ outcome = "Exception"
    /\ wraps = <<"Anthropic API error">>
    /\ msg = Text("Incorrect API key provided")

\* The run of the generate command has a configuration fault: no user
\* configuration, an invalid one (malformed, not resolvable, a required
\* section, llm.provider or llm.model missing), an unsupported provider, or
\* a key variable of the selected provider that is unset or empty.
ConfigFault ==
    \/ userFile = NoFile
    \/ userFile.yaml = "bad"
    \/ load_config.outcome # "ok"
    \/ load_config.config.kind # "map"
    \/ load_config.config.llm.kind # "map"
    \/ load_config.config.output.kind = "absent"
    \/ load_config.config.llm.provider = ABSENT
    \/ load_config.config.llm.provider \notin Supported
    \/ load_config.config.llm.model = ABSENT
    \/ ~TruthyStr(environ[KeyVar(load_config.config.llm.provider)])

\* the run got a backend fault: the probe failed, the generation request
\* raised, or the response was empty or absent
BackendFault ==
    \/ backend.probe \notin {"unused", "ok"}
    \/ backend.response.kind = "error"
    \/ EmptyResponse(backend.response)

\* the run read an empty or oversized clipboard
ClipboardFault ==
    /\ input.source = "clipboard"
    /\ input.access = "ok"
    /\ \/ Strip(input.text) = ""
       \/ TextLen(Strip(input.text)) > MaxSizeBytes

\* C17: in the generate command a configuration fault (missing or invalid
\* configuration, missing or unusable credential, unsupported provider) is
\* raised as ConfigurationError and reported under "Configuration Error"; a
\* backend fault (failed call, empty response, failed probe) is raised as
\* APIError and reported under "API Error"; an empty or oversized clipboard
\* is raised as an input error and reported under "Input Error".
C17_ErrorTaxonomy ==
    op = "generate_command" =>
        /\ ConfigFault =>
             (outcome = "ConfigurationError" /\ exit.stderr = "Configuration Error")
        /\ BackendFault =>
             (outcome = "APIError" /\ exit.stderr = "API Error")
        /\ ClipboardFault =>
             (outcome = "ValueError" /\ exit.stderr = "Input Error")

\* every stage of the run of the generate command succeeded: configuration
\* and credentials, the generator's files, the clipboard input, the probe,
\* a non-empty letter from the backend, and the save
AllSucceeded ==
    /\ ~ConfigFault
    /\ disk.profile = "present"
    /\ input.source = "clipboard"
    /\ ~ClipboardRejected
    /\ backend.probe = "ok"
    /\ backend.response.kind = "text"
    /\ Strip(backend.response.text) # ""
    /\ saved.file # NoOutputFile

\* C18: the generate command exits with code 0 exactly when configuration
\* loading, credential checks, clipboard input, generation and saving all
\* succeeded; otherwise it exits with a non-zero code after a diagnostic has
\* been written to the error stream.
C18_ExitCode ==
    op = "generate_command" =>
        /\ exit.exited
        /\ exit.code = 0 <=> AllSucceeded
        /\ exit.code # 0 => exit.stderr # ""

\* C19: mask_api_key returns "****" for every key shorter than eight
\* characters, the empty key included; for a key of eight characters or more
\* it returns eleven characters: the first four of the key, then "...",
\* then the last four of the key.
C19_MaskShape ==
    op = "mask_api_key" =>
        /\ Len(key) < 8 => masked = <<"*", "*", "*", "*">>
        /\ Len(key) >= 8 =>
             /\ Len(masked) = 11
             /\ \A i \in 1..4 : masked[i] = key[i]
             /\ \A i \in 5..7 : masked[i] = "."
             /\ \A i \in 1..4 : masked[7 + i] = key[Len(key) - 4 + i]

\* C19 witness: a key of exactly eight characters whose halves differ has
\* been masked to its first four characters, "..." and its last four.
C19_Witness ==
    /\ op = "mask_api_key"
    /\ key = <<"k", "k", ".", "k", ".", "k", "k", ".">>
    /\ masked = <<"k", "k", ".", "k", ".", ".", ".", ".", "k", "k", ".">>

\* t occurs in s as a contiguous substring
Contains(s, t) ==
    /\ Len(t) <= Len(s)
    /\ \E i \in 0..(Len(s) - Len(t)) : SubSeq(s, i + 1, i + Len(t)) = t

\* C20: for every key longer than eight characters, whatever its characters
\* ('.' included), the string mask_api_key returns does not contain the key
\* as a substring, and so is never equal to the key.
C20_MaskHidesKey ==
    (op = "mask_api_key" /\ Len(key) > 8) =>
        /\ ~Contains(masked, key)
        /\ masked # key

\* C27: load_config and validate_config end normally or with
\* ConfigurationError, never with an error of another kind, whatever the
\* selected configuration file holds (nothing, malformed text, a scalar or a
\* list, a mapping whose llm or output entry is not a mapping) and whatever
\* the override variables are; and the configuration loaded from an empty
\* user file is not accepted by validate_config.
C27_OnlyConfigurationError ==
    /\ op \in {"load_config", "validate_config"} =>
          outcome \in {"ok", "ConfigurationError"}
    /\ (/\ op = "validate_config"
        /\ userFile # NoFile
        /\ userFile.yaml = "ok"
        /\ userFile.doc.kind = "null"
        /\ load_config.outcome = "ok"
        /\ config = load_config.config) => outcome # "ok"

\* C23: _save_as_pdf leaves the generator's configuration as it was: the
\* configuration after the call, the step that adds cover_letter_content to
\* the template variables included, equals the configuration before it,
\* whether the PDF was produced or not.
C23_ConfigNotMutated ==
    op = "_save_as_pdf" => returned.config = given.config

\* a PDF was saved from a configuration that holds template variables of its
\* own, and cover_letter_content was added to the variables of the template
C23_Witness ==
    /\ op = "_save_as_pdf"
    /\ returned.outcome = "ok"
    /\ given.config.pdf.has_variables
    /\ DOMAIN given.config.pdf.template_variables = {"applicant_name"}
    /\ "cover_letter_content" \in DOMAIN returned.template_variables
    /\ returned.template_variables["cover_letter_content"] # <<>>

\* the number of characters of C that s starts with
RECURSIVE CountWhile(_, _)
CountWhile(s, C) ==
    IF s # <<>> /\ s[1] \in C THEN 1 + CountWhile(Tail(s), C) ELSE 0

NameChars == {"n"}
NoPlaceholder == [found |-> FALSE, length |-> 0, name |-> <<>>]

\* the placeholder s starts with, as the template wrote it: two opening
\* braces, blanks, a name, blanks, two closing braces
PlaceholderAt(s) ==
    IF ~StartsWith(s, <<"{", "{">>) THEN NoPlaceholder
    ELSE LET a == CountWhile(Drop(s, 2), {" "})
             n == CountWhile(Drop(s, 2 + a), NameChars)
             b == CountWhile(Drop(s, 2 + a + n), {" "})
         IN  IF n > 0 /\ StartsWith(Drop(s, 2 + a + n + b), <<"}", "}">>)
             THEN [found |-> TRUE, length |-> a + n + b + 4,
                   name |-> SubSeq(s, 3 + a, 2 + a + n)]
             ELSE NoPlaceholder

\* a template made of placeholders and of text without braces
RECURSIVE PlainTemplate(_)
PlainTemplate(s) ==
    \/ s = <<>>
    \/ /\ s # <<>>
       /\ IF PlaceholderAt(s).found
          THEN PlainTemplate(Drop(s, PlaceholderAt(s).length))
          ELSE s[1] \notin {"{", "}"} /\ PlainTemplate(Tail(s))

\* the template with the placeholders of known names replaced by their
\* values and everything else as written
RECURSIVE Substituted(_, _)
Substituted(s, variables) ==
    IF s = <<>> THEN <<>>
    ELSE LET ph == PlaceholderAt(s)
         IN  IF ph.found
             THEN (IF ph.name \in DOMAIN variables
                   THEN variables[ph.name]
                   ELSE SubSeq(s, 1, ph.length))
                    \o Substituted(Drop(s, ph.length), variables)
             ELSE <<s[1]>> \o Substituted(Tail(s), variables)

\* C24: for a template made of placeholders and of text without braces,
\* _substitute_variables returns the template with every placeholder whose
\* name is a key replaced by that key's value, every placeholder whose name
\* is not a key left exactly as the template wrote it (blanks inside the
\* braces included), and the text outside placeholders unchanged.
C24_Substitution ==
    (op = "_substitute_variables" /\ PlainTemplate(given.html_content)) =>
        returned = Substituted(given.html_content, given.variables)

\* s.split('\n'): the lines of s
RECURSIVE LinesFrom(_, _)
LinesFrom(s, cur) ==
    IF s = <<>> THEN <<cur>>
    ELSE IF s[1] = "\n"
         THEN <<cur>> \o LinesFrom(Tail(s), <<>>)
         ELSE LinesFrom(Tail(s), Append(cur, s[1]))

\* a line holding nothing, or blanks only
BlankLine(l) == \A i \in DOMAIN l : l[i] = " "

\* the blank-line-delimited blocks of the lines, each as its words in order
\* (cur holds the words of the block being read)
RECURSIVE BlocksFrom(_, _)
BlocksFrom(lines, cur) ==
    LET done == IF cur = <<>> THEN <<>> ELSE <<cur>>
    IN  IF lines = <<>> THEN done
        ELSE IF BlankLine(lines[1])
             THEN done \o BlocksFrom(Tail(lines), <<>>)
             ELSE BlocksFrom(Tail(lines), cur \o str_split(lines[1]))

RECURSIVE ParagraphsOf(_)
ParagraphsOf(blocks) ==
    IF blocks = <<>> THEN <<>>
    ELSE <<(<<"<p>">> \o str_join(<<" ">>, blocks[1]) \o <<"</p>">>)>>
           \o ParagraphsOf(Tail(blocks))

\* C25: _format_content_as_html returns one <p>...</p> element for each
\* block of lines delimited by blank lines (a line of blanks only counts as
\* blank), in input order, the words of the block joined by single spaces;
\* no paragraph is empty and blank input gives the empty string.
C25_Paragraphs ==
    op = "_format_content_as_html" =>
        returned = str_join(<<"\n">>,
                            ParagraphsOf(BlocksFrom(LinesFrom(given.content, <<>>), <<>>)))

\* the texts of the first n content blocks, one after the other
RECURSIVE TextUpTo(_, _)
TextUpTo(content, n) ==
    IF n = 0 THEN <<>>
    ELSE TextUpTo(content, n - 1)
           \o (IF content[n].has_text THEN content[n].text ELSE <<>>)

\* C26: when the backend's response has content, generate_cover_letter
\* returns, in either variant, the backend's text with the whitespace at
\* both ends removed; in the Anthropic variant that text is the texts of all
\* the content blocks joined in response order.
C26_ConcatenatedText ==
    (op = "response_text" /\ given.response_content # <<>>) =>
        /\ returned.outcome = "ok"
        /\ returned.value =
             str_strip(TextUpTo(given.response_content, Len(given.response_content)))

\* the Anthropic variant returned a text that spans two content blocks
C26_Witness ==
    /\ op = "response_text"
    /\ given.variant = "anthropic"
    /\ Len(given.response_content) = 2
    /\ given.response_content[1].text = <<" ", "a">>
    /\ given.response_content[2].text = <<"a", " ">>
    /\ returned.value = <<"a", "a">>

\* what save_config(c) followed by load_config() is said to return
RoundTrip == outcome = "ok" /\ config.llm = lastSaved.llm /\ config.output = lastSaved.output

KeyValues == {environ[n] : n \in {"OPENAI_API_KEY", "ANTHROPIC_API_KEY"}} \ {UNSET, ""}
FieldsOf(d) == {d.llm.provider, d.llm.model, d.output.format, d.output.output_dir}

\* C22: no field of the stored user configuration, and none of a loaded
\* configuration, holds an API key of the environment, after any of setup,
\* configure, save_config and load_config; and the key a client holds is the
\* value of its provider's environment variable.
C22_NoCredentialInFile ==
    /\ userFile.yaml = "ok" => FieldsOf(userFile.doc) \cap KeyValues = {}
    /\ FieldsOf(config) \cap KeyValues = {}
    /\ client.variant = "OpenAIClient" => client.api_key = environ["OPENAI_API_KEY"]
    /\ client.variant = "AnthropicClient" => client.api_key = environ["ANTHROPIC_API_KEY"]

\* setup found the key in the environment, passed the probe and wrote the
\* configuration file
C22_Witness ==
    /\ op = "setup_command"
    /\ outcome = "complete"
    /\ session.answers.provider = "openai"
    /\ environ["OPENAI_API_KEY"] = "sk-openai-key"
    /\ userFile # before.config
    /\ userFile.doc.llm.provider = "openai"

\* C28: configure_command writes the stored configuration only on Save and
\* Exit, and what it writes differs from what was stored only in the fields
\* edited during the session; without any edit llm.provider and
\* output.output_dir stay as stored, whatever override variables are set.
C28_ConfigureFrame ==
    op = "configure_command" =>
        /\ userFile # before.config => session.answers.ending = "save"
        /\ (session.answers.ending = "save" /\ outcome = "saved") =>
             /\ session.answers.llm_edit = "keep" =>
                  ParsedFile(userFile).llm = ParsedFile(before.config).llm
             /\ session.answers.format_edit = "keep" =>
                  ParsedFile(userFile).output.format
                    = ParsedFile(before.config).output.format
             /\ session.answers.dir_edit = "keep" =>
                  ParsedFile(userFile).output.output_dir
                    = ParsedFile(before.config).output.output_dir

\* C29: setup leaves every profile, system prompt and template file that
\* existed before it with the content it had, and replaces an existing
\* config.yaml only after the user confirmed overwriting.
C29_SetupKeepsUserFiles ==
    op = "setup_command" =>
        /\ \A f \in DOMAIN files :
             before.files[f] # "absent" => files[f] = before.files[f]
        /\ (before.config # NoFile /\ userFile # before.config) =>
             session.answers.overwrite

\* the key of the chosen provider was found in the environment and passed
\* the probe, at the first test or at the one after the user's confirmation
KeyPassed ==
    /\ TruthyStr(environ[api_key_env_var(session.answers.provider)])
    /\ \/ session.answers.probes[1] = "ok"
       \/ session.answers.confirmed /\ session.answers.probes[2] = "ok"

\* C30: setup_command changes the user configuration file or the profile
\* only after the provider's key was found in the environment and passed
\* the probe; when the user declines to overwrite, when the key variable is
\* missing, when the probe fails or when setup is interrupted before the
\* save step, the stored configuration and the profile are what they were.
C30_SaveAfterProbe ==
    op = "setup_command" =>
        /\ (userFile # before.config \/ files # before.files) => KeyPassed
        /\ (\/ before.config # NoFile /\ ~session.answers.overwrite
            \/ environ[api_key_env_var(session.answers.provider)] = UNSET
            \/ ~KeyPassed
            \/ session.answers.interrupt # "none") =>
             userFile = before.config /\ files.profile = before.files.profile

\* the user agreed to overwrite, the key was in the environment and failed
\* both probes: setup ended with an error
C30_Witness ==
    /\ op = "setup_command"
    /\ before.config # NoFile
    /\ session.answers.overwrite
    /\ session.answers.probes = <<"auth_error", "auth_error">>
    /\ session.answers.confirmed
    /\ session.code = 1
    /\ outcome = "ConfigurationError"

====
